---- MODULE Spec2Model ----
(***************************************************************************)
(* Model of the generators of neuron/generators.py: patch(), vol(),        *)
(* vol_seg(), vol_seg_prior(), ext_data(), vol_ext_data(), img_seg(),      *)
(* max_patch_in_vol_cat(), vol_sr_slices() and their helpers.              *)
(*                                                                         *)
(* A Python generator is a suspended computation.  Each generator is a     *)
(* record holding its local variables and the place it is suspended at     *)
(* (pc).  One consumer operation (next(gen) or gen.send(x)) is one action: *)
(* it runs the generator's code from the place it is suspended at up to    *)
(* the next yield, the end of the generator, or a raised exception.        *)
(*                                                                         *)
(* Arrays are modelled by what the claims observe of them: a patch is the  *)
(* pair <<volume, grid offset index>>, a batch is the sequence of its      *)
(* entries along the leading axis (np.vstack is concatenation), and a      *)
(* logical sample of vol() is the sequence of the patches concatenated     *)
(* along its channel axis.                                                 *)
(***************************************************************************)
EXTENDS Integers, Sequences, FiniteSets, TLC

VARIABLES
    pgen,   \* the patch() generator driven directly by a consumer
    pout,   \* what each consumer operation on pgen returned, in order
    vgen,   \* the vol() generator driven directly by a consumer
    vout,   \* what each next(vgen) returned, in order
    cgen,   \* the vol_seg_prior() generator (with vol_seg, two vol, one patch inside)
    cout,   \* what each next(cgen) returned, in order
    sgen,   \* the vol_seg() generator driven directly by a consumer
    sout,   \* what each next(sgen) returned, in order
    rel,    \* one volume on its way through the relabeling of vol()
    call,   \* one call of a helper: the patch grid, or the volume loader
    lst,    \* the random state of numpy and the file lists returned so far
    egen,   \* the vol_ext_data() generator (one vol, one ext_data inside)
    eout,   \* what each next(egen) returned, in order
    igen,   \* the img_seg() generator (two imggen inside)
    iout,   \* what each next(igen) returned, in order
    mgen,   \* the max_patch_in_vol_cat() generator
    mout,   \* what the last next(mgen) returned
    rgen,   \* the vol_sr_slices() generator
    rout    \* what the last next(rgen) returned

vars == <<pgen, pout, vgen, vout, cgen, cout, sgen, sout, rel, call, lst, egen, eout, igen, iout,
          mgen, mout, rgen, rout>>

\* ---------------------------------------------------------------- bounds
MaxGrid == 3      \* largest number of offsets of a patch grid
MaxBatch == 3     \* largest batch size given or sent
MaxOps == 4       \* consumer operations on a patch() generator
MaxFiles == 2     \* files of a directory
MaxFeats == 2     \* nb_feats
MaxPulls == 5     \* pulls on a vol() or vol_seg_prior() generator
MaxVox == 2       \* voxels of a volume that is relabeled
MaxLabel == 3     \* largest voxel value, and largest length of a relabel array
MaxResp == 1      \* largest response of the model on a patch
MaxDepth == 4     \* largest number of slices of a volume
MaxSlices == 2    \* largest nb_input_slices
MaxSpacing == 1   \* largest nb_slice_spacing

\* ---------------------------------------------------------------- values
\* A value sent into a generator: None (a plain next()) or an integer.
None == [none |-> TRUE, n |-> 0]
Size(n) == [none |-> FALSE, n |-> n]

\* F(x), with x computed once before F is applied.
Eval(F(_), x) == CHOOSE r \in {F(y) : y \in {x}} : TRUE

\* expected_files of vol(): None, or a list of file names.
NoFiles == [none |-> TRUE, files |-> <<>>]
Files(files) == [none |-> FALSE, files |-> files]

\* A generator that is not part of the running system.
Off == [pc |-> "off"]

\* ------------------------------------------------------------- patch()
\* pl.patch_gen(vol_data, patch_size, stride): the patches of the volume in
\* grid order; the volume is given by its identity and its number of offsets.
patch_gen(vol_data) == [k \in 1..vol_data.N |-> <<vol_data.id, k>>]

\* _categorical_prep ends with np.expand_dims(lpatch, axis=0): a batch of one
\* entry. An entry is the sequence of the patches laid along its channel axis;
\* a patch fresh from the grid holds itself only.
categorical_prep(p) == << <<p>> >>

\* Mutant: the entries stacked before are lost.
vstackKeepsLast(a, b) == b

\* np.vstack of two batches
vstack(a, b) == a \o b

\* The generator object returned by the call patch(...): no code has run yet.
patch(vol_data, batch_size, variable_batch_size, infinite) ==
    [pc |-> "start",
     vol_data |-> vol_data,
     arg_batch_size |-> batch_size,   \* the argument of the call, kept for the properties
     batch_size |-> Size(batch_size),
     variable_batch_size |-> variable_batch_size,
     infinite |-> infinite,
     batch_idx |-> -1,
     patch_data_batch |-> <<>>,   \* unbound until the first patch
     gpos |-> 0,                  \* patches taken from the current gen
     empty_gen |-> TRUE,
     exc |-> "none"]              \* the exception that ended the generator

\* Lines 213-219: the test that ends an accumulation round.
PatchBatchDone(batch_idx, batch_size) == batch_idx = batch_size - 1

RECURSIVE PatchFor(_)

\* Mutant: a partial trailing batch of one patch is dropped (batch_idx > 0).
PatchAfterForDropsOne(g) ==
    IF g.empty_gen
    THEN [g EXCEPT !.pc = "error", !.exc = "Exception: generator was empty"]
    ELSE IF ~g.infinite
    THEN IF g.batch_idx > 0
         THEN [g EXCEPT !.pc = "lastyield"]
         ELSE [g EXCEPT !.pc = "done"]
    ELSE IF ~g.batch_size.none /\ g.batch_idx > g.batch_size.n - 1
    THEN [g EXCEPT !.pc = "hang"]
    ELSE PatchFor([g EXCEPT !.gpos = 0, !.empty_gen = TRUE])

\* Mutant: the infinite flag is ignored, the grid is never restarted.
PatchAfterForNeverRestarts(g) ==
    IF g.empty_gen
    THEN [g EXCEPT !.pc = "error", !.exc = "Exception: generator was empty"]
    ELSE IF g.batch_idx >= 0
    THEN [g EXCEPT !.pc = "lastyield"]
    ELSE [g EXCEPT !.pc = "done"]

\* Mutant: an empty grid ends the generator without an error.
PatchAfterForEmptyIsDone(g) ==
    IF g.empty_gen
    THEN [g EXCEPT !.pc = "done"]
    ELSE IF ~g.infinite
    THEN IF g.batch_idx >= 0
         THEN [g EXCEPT !.pc = "lastyield"]
         ELSE [g EXCEPT !.pc = "done"]
    ELSE IF ~g.batch_size.none /\ g.batch_idx > g.batch_size.n - 1
    THEN [g EXCEPT !.pc = "hang"]
    ELSE PatchFor([g EXCEPT !.gpos = 0, !.empty_gen = TRUE])

\* Lines 221-228: the code after the for loop, and the next turn of `while True`.
PatchAfterFor(g) ==
    IF g.empty_gen
    THEN [g EXCEPT !.pc = "error",              \* raise Exception('generator was empty')
                   !.exc = "Exception: generator was empty"]
    ELSE IF ~g.infinite
    THEN IF g.batch_idx >= 0
         THEN [g EXCEPT !.pc = "lastyield"]     \* yield patch_data_batch
         ELSE [g EXCEPT !.pc = "done"]          \* break
    ELSE IF ~g.batch_size.none /\ g.batch_idx > g.batch_size.n - 1
    THEN [g EXCEPT !.pc = "hang"]               \* the test of line 215 can never hold again
    ELSE PatchFor([g EXCEPT !.gpos = 0, !.empty_gen = TRUE])

\* Lines 198-219: the for loop over the patches of the current gen, run up to
\* the next yield.
PatchFor(g) ==
    IF g.gpos < g.vol_data.N
    THEN LET lpatch == categorical_prep(patch_gen(g.vol_data)[g.gpos + 1])
             stack == IF g.batch_idx = -1 THEN lpatch
                      ELSE vstack(g.patch_data_batch, lpatch)
             g1 == [g EXCEPT !.gpos = @ + 1, !.empty_gen = FALSE,
                             !.patch_data_batch = stack,
                             !.batch_idx = @ + 1]
         IN  IF g.batch_size.none
             THEN [g1 EXCEPT !.pc = "error", !.exc = "TypeError"]    \* None - 1
             ELSE IF PatchBatchDone(g1.batch_idx, g.batch_size.n)
             THEN [g1 EXCEPT !.batch_idx = -1, !.pc = "yield"]
             ELSE Eval(PatchFor, g1)
    ELSE PatchAfterFor(g)

\* Lines 183-194: the first next(): the entry assertion, the handshake yield
\* of negotiated mode, or straight into the loop.
PatchStart(g) ==
    IF ~(g.batch_size.n >= 1)
    THEN [g EXCEPT !.pc = "error", !.exc = "AssertionError"]   \* assert batch_size >= 1
    ELSE IF g.variable_batch_size
    THEN [g EXCEPT !.pc = "hs"]                 \* batch_size = yield
    ELSE PatchFor([g EXCEPT !.gpos = 0, !.empty_gen = TRUE])

\* Mutant: the value sent at the handshake is not stored.
PatchAfterHandshakeKeepsArg(g, sent) ==
    PatchFor([g EXCEPT !.gpos = 0, !.empty_gen = TRUE])

\* Line 188 resumed: batch_size = <the value sent>.
PatchAfterHandshake(g, sent) ==
    PatchFor([g EXCEPT !.batch_size = sent, !.gpos = 0, !.empty_gen = TRUE])

\* Mutant: the value sent after a batch is not stored.
PatchAfterYieldKeepsSize(g, sent) == PatchFor(g)

\* Mutant: a pull that carries no size leaves the size in force.
PatchAfterYieldNoneKeepsSize(g, sent) ==
    PatchFor(IF g.variable_batch_size /\ ~sent.none THEN [g EXCEPT !.batch_size = sent] ELSE g)

\* Mutant: the grid is started over after every batch.
PatchAfterYieldRestartsGrid(g, sent) ==
    PatchFor(IF g.variable_batch_size THEN [g EXCEPT !.batch_size = sent, !.gpos = 0]
             ELSE [g EXCEPT !.gpos = 0])

\* Lines 217-219 resumed: batch_size_y = <the value sent>.
PatchAfterYield(g, sent) ==
    PatchFor(IF g.variable_batch_size THEN [g EXCEPT !.batch_size = sent] ELSE g)

\* gen.send(sent) on a patch() generator; next(gen) is gen.send(None).
PatchSend(g, sent) ==
    CASE g.pc = "start"     -> PatchStart(g)
      [] g.pc = "hs"        -> PatchAfterHandshake(g, sent)
      [] g.pc = "yield"     -> PatchAfterYield(g, sent)
      [] g.pc = "lastyield" -> [g EXCEPT !.pc = "done"]    \* break, StopIteration
      [] OTHER              -> g                           \* finished: StopIteration

PatchNext(g) == PatchSend(g, None)

\* What the operation that left the generator in state g handed to its caller.
PatchReturned(g) ==
    CASE g.pc = "hs" -> [ret |-> "none", batch |-> <<>>]
      [] g.pc \in {"yield", "lastyield"} -> [ret |-> "batch", batch |-> g.patch_data_batch]
      [] g.pc = "done" -> [ret |-> "stop", batch |-> <<>>]
      [] g.pc = "hang" -> [ret |-> "hang", batch |-> <<>>]
      [] OTHER -> [ret |-> "error", batch |-> <<>>]

\* ------------------------------------------------- a consumer of patch()
InitPatch ==
    /\ \E N \in 0..MaxGrid, B \in 0..MaxBatch, v \in BOOLEAN, inf \in BOOLEAN :
          pgen = patch([id |-> 0, N |-> N], B, v, inf)
    /\ pout = <<>>
    /\ vgen = Off /\ vout = <<>>
    /\ cgen = Off /\ cout = <<>>
    /\ sgen = Off /\ sout = <<>>
    /\ rel = Off
    /\ call = Off /\ lst = Off
    /\ egen = Off /\ eout = <<>>
    /\ igen = Off /\ iout = <<>>
    /\ mgen = Off /\ mout = Off
    /\ rgen = Off /\ rout = Off

\* next(pgen)
PatchPull ==
    /\ pgen.pc \in {"start", "hs", "yield", "lastyield", "done"}
    /\ Len(pout) < MaxOps
    /\ pgen' = PatchNext(pgen)
    /\ pout' = Append(pout, [sent |-> None] @@ PatchReturned(pgen'))
    /\ UNCHANGED <<vgen, vout, cgen, cout, sgen, sout, rel, call, lst, egen, eout, igen, iout,
                 mgen, mout, rgen, rout>>

\* pgen.send(n), legal once the generator has started
PatchSendSize(n) ==
    /\ pgen.pc \in {"hs", "yield", "lastyield", "done"}
    /\ Len(pout) < MaxOps
    /\ pgen' = PatchSend(pgen, Size(n))
    /\ pout' = Append(pout, [sent |-> Size(n)] @@ PatchReturned(pgen'))
    /\ UNCHANGED <<vgen, vout, cgen, cout, sgen, sout, rel, call, lst, egen, eout, igen, iout,
                 mgen, mout, rgen, rout>>

NextPatch == PatchPull \/ \E n \in 0..MaxBatch : PatchSendSize(n)

SpecPatch == InitPatch /\ [][NextPatch]_vars

\* ------------------------------------------------ properties of patch()
RECURSIVE Flatten(_)
\* The concatenation of a sequence of sequences.
Flatten(ss) == IF ss = <<>> THEN <<>> ELSE Head(ss) \o Flatten(Tail(ss))

\* The batches the consumer of pgen received, in order.
PatchBatches == [k \in 1..Len(pout) |-> pout[k].batch]

GridN == pgen.vol_data.N

\* The consumer sent a positive size in each of the operations 2..k.
PositiveSends(k) == \A j \in 2..k : ~pout[j].sent.none /\ pout[j].sent.n >= 1

\* C1: in negotiated infinite mode over a non-empty grid, after the handshake,
\* the batch returned by every send of a positive size n has exactly n entries,
\* whatever the sizes sent before.
C1_NegotiatedSizeMatches ==
    (pgen.pc # "off" /\ pgen.variable_batch_size /\ pgen.infinite /\ GridN >= 1
        /\ pgen.arg_batch_size >= 1)
    => \A k \in 2..Len(pout) :
          PositiveSends(k) =>
             /\ pout[1].ret = "none"
             /\ pout[k].ret = "batch"
             /\ Len(pout[k].batch) = pout[k].sent.n

\* Three sends after the handshake, each size different from the one before.
C1_Witness ==
    /\ pgen.pc = "yield" /\ pgen.variable_batch_size /\ pgen.infinite
    /\ Len(pout) = 4 /\ PositiveSends(4)
    /\ pout[2].sent.n # pout[3].sent.n /\ pout[3].sent.n # pout[4].sent.n
    /\ pout[2].sent.n = pout[4].sent.n
    /\ Len(pout[4].batch) = pout[4].sent.n

\* C2: in negotiated mode the first pull returns the empty acknowledgment
\* and takes no patch from the grid; the size in force after the first send is
\* the value sent, not the batch_size argument, and a full first batch has
\* that many entries.
C2_HandshakeFirst ==
    (pgen.pc # "off" /\ pgen.variable_batch_size /\ pgen.arg_batch_size >= 1)
    => /\ Len(pout) >= 1 => pout[1].ret = "none"
       /\ pgen.pc = "hs" =>
             pgen.gpos = 0 /\ pgen.patch_data_batch = <<>> /\ pgen.batch_idx = -1
       /\ Len(pout) = 2 =>
             /\ pgen.batch_size = pout[2].sent
             /\ pout[2].ret = "batch" => ~pout[2].sent.none
             /\ pgen.pc = "yield" => Len(pout[2].batch) = pout[2].sent.n

\* A first batch whose size is the sent value and differs from the argument.
C2_Witness ==
    /\ pgen.pc = "yield" /\ pgen.variable_batch_size
    /\ Len(pout) = 2 /\ pout[1].ret = "none"
    /\ pout[2].sent.n # pgen.arg_batch_size
    /\ Len(pout[2].batch) = pout[2].sent.n

\* C4: fixed mode, infinite=False, N >= 1 patches, batch size B >= 1: the
\* first N div B operations return batches of B entries, the next one returns
\* N mod B entries when that is not zero, and every later one finds the
\* generator finished.
C4_FiniteBatchCount ==
    (pgen.pc # "off" /\ ~pgen.variable_batch_size /\ ~pgen.infinite /\ GridN >= 1
        /\ pgen.arg_batch_size >= 1)
    => LET B == pgen.arg_batch_size IN
       \A k \in 1..Len(pout) :
          IF k <= GridN \div B
          THEN pout[k].ret = "batch" /\ Len(pout[k].batch) = B
          ELSE IF k = (GridN \div B) + 1 /\ GridN % B # 0
          THEN pout[k].ret = "batch" /\ Len(pout[k].batch) = GridN % B
          ELSE pout[k].ret = "stop"

\* A finished finite stream that yielded full batches and then a partial one.
C4_Witness ==
    /\ pgen.pc = "done" /\ ~pgen.variable_batch_size /\ ~pgen.infinite
    /\ pgen.arg_batch_size >= 2 /\ GridN > pgen.arg_batch_size
    /\ GridN % pgen.arg_batch_size # 0
    /\ Len(pout) = (GridN \div pgen.arg_batch_size) + 2
    /\ pout[Len(pout)].ret = "stop"

\* The batch size in force for the batch returned by operation k.
SizeInForce(k) ==
    IF pgen.variable_batch_size THEN pout[k].sent.n ELSE pgen.arg_batch_size

\* C5: with infinite=True every yielded batch has exactly the batch size in
\* force (no partial batch), and the batches laid end to end are the grid's
\* offsets 1..N repeated from the first offset, none dropped at a restart.
C5_InfiniteNoPartial ==
    (pgen.pc # "off" /\ pgen.infinite /\ GridN >= 1)
    => /\ \A k \in 1..Len(pout) :
             pout[k].ret = "batch" => Len(pout[k].batch) = SizeInForce(k)
       /\ \A k \in 1..Len(pout) : pout[k].ret # "stop"
       /\ LET flat == Flatten(PatchBatches) IN
          \A i \in 1..Len(flat) : flat[i] = << <<pgen.vol_data.id, ((i - 1) % GridN) + 1>> >>

\* A batch that holds the last offset of one pass followed by the first
\* offset of the next pass.
C5_Witness ==
    /\ pgen.pc = "yield" /\ pgen.infinite /\ GridN >= 2
    /\ \E i \in 1..(Len(pgen.patch_data_batch) - 1) :
          /\ pgen.patch_data_batch[i] = << <<pgen.vol_data.id, GridN>> >>
          /\ pgen.patch_data_batch[i + 1] = << <<pgen.vol_data.id, 1>> >>

\* Operation k of the consumer is a plain pull made where negotiated mode
\* expects a size: right after the acknowledgment or after a yielded batch.
PlainPullAt(k) ==
    /\ k >= 2 /\ k <= Len(pout)
    /\ pout[k].sent.none
    /\ pout[k - 1].ret \in {"none", "batch"}

\* The number of patches in the batches returned before operation k.
TakenBefore(k) == Len(Flatten(SubSeq(PatchBatches, 1, k - 1)))

\* C19 as stated: in negotiated mode every plain pull made where a size is
\* expected fails with an error.
C19_PlainPullFails ==
    (pgen.pc # "off" /\ pgen.variable_batch_size /\ pgen.arg_batch_size >= 1) =>
       \A k \in 2..Len(pout) : PlainPullAt(k) => pout[k].ret = "error"

\* C19, amended: such a pull never returns a further batch. It fails with an
\* error right after the acknowledgment, always in infinite mode, and in
\* finite mode while patches of the grid remain; in finite mode after the
\* batch that took the last patch of the grid it ends the stream normally.
C19_PlainPullNoBatch ==
    (pgen.pc # "off" /\ pgen.variable_batch_size /\ pgen.arg_batch_size >= 1) =>
       \A k \in 2..Len(pout) : PlainPullAt(k) =>
          /\ pout[k].ret \in {"error", "stop"}
          /\ pout[k].ret = "stop" <=>
                (~pgen.infinite /\ pout[k - 1].ret = "batch" /\ TakenBefore(k) = GridN)
          /\ pout[k].ret = "error" =>
                pgen.exc = IF GridN = 0 THEN "Exception: generator was empty" ELSE "TypeError"

\* A batch of the size sent, then a plain pull that failed on the missing size.
C19_Witness ==
    /\ pgen.pc = "error" /\ pgen.variable_batch_size /\ pgen.exc = "TypeError"
    /\ Len(pout) = 3 /\ pout[2].ret = "batch" /\ Len(pout[2].batch) >= 2
    /\ PlainPullAt(3) /\ pout[3].ret = "error"

\* C28: in negotiated infinite mode over a non-empty grid every send of a
\* size returns a batch (the producer does not gather patches forever), and
\* the size in force while it gathers is 1 or more, as asserted at entry.
C28_SendReturnsBatch ==
    (pgen.pc # "off" /\ pgen.variable_batch_size /\ pgen.infinite /\ GridN >= 1) =>
       \A k \in 2..Len(pout) : ~pout[k].sent.none =>
          /\ pout[k].ret = "batch"
          /\ pgen.pc # "hang"
          /\ SizeInForce(k) >= 1

\* --------------------------------------------------------------- vol()
\* np.mod: the result takes the sign of the divisor; an integer modulo zero is 0.
np_mod(a, n) ==
    IF n = 0 THEN 0 ELSE IF n > 0 THEN a % n ELSE -((-a) % (-n))

\* Mutant: the patches gathered before are dropped.
concatenateKeepsLast(a, b) == b

\* np.concatenate([a, b], np.ndim(b) - 1): along the channel axis, entry by entry.
concatenate(a, b) == [i \in 1..Len(a) |-> a[i] \o b[i]]

\* volfiles[fileidx]: a Python list index; negative indices count from the end.
ValidIndex(fileidx, nb_files) == -nb_files <= fileidx /\ fileidx < nb_files
FileAt(fileidx, nb_files) == IF fileidx < 0 THEN fileidx + nb_files ELSE fileidx

\* pl.gridsize(vol_size, patch_size, patch_stride) along one axis: the number
\* of offsets 0, stride, 2*stride, ... at which the patch fits in the volume.
gridsize(vol_size, patch_size, patch_stride) ==
    IF patch_size > vol_size THEN 0 ELSE ((vol_size - patch_size) \div patch_stride) + 1

\* The generator object returned by the call vol(...) with a patch size: no
\* code has run yet. npatch[f] is the number of grid offsets of file f under
\* the patch size given: file f is a volume of npatch[f] voxels along one axis,
\* cut into patches of one voxel at stride 1.
vol(nb_files, npatch, batch_size, nb_restart_cycle, nb_feats, yield_incomplete_final_batch) ==
    [pc |-> "start",
     nb_files |-> nb_files,
     npatch |-> npatch,
     batch_size |-> batch_size,
     nb_restart_cycle |-> nb_restart_cycle,
     nb_feats |-> nb_feats,
     yield_incomplete_final_batch |-> yield_incomplete_final_batch,
     volfiles |-> [f \in 0..(nb_files - 1) |-> f],   \* the names listed, here their ranks
     expected_nb_files |-> -1,
     expected_files |-> NoFiles,
     stderr |-> <<>>,             \* the lines printed to sys.stderr
     shape |-> npatch,            \* vol_data.shape of each file
     arg_patch_size |-> Size(1),  \* the argument of the call, kept for the properties
     patch_size |-> Size(1),
     patch_stride |-> 1,
     nan_at |-> {},               \* the patches that hold a not-a-number value
     inf_at |-> {},               \* the patches that hold an infinite value
     fileidx |-> -1,
     batch_idx |-> -1,
     feat_idx |-> 0,
     vol_data_feats |-> <<>>,     \* unbound until the first patch
     vol_data_batch |-> <<>>,     \* unbound until the first sample
     patch_gen |-> Off,
     empty_gen |-> TRUE,
     exc |-> "none",              \* the exception that ended the generator
     exc_file |-> -1,             \* the file index its message names
     loaded |-> <<>>]             \* the file indices taken so far, kept for the properties

\* Mutant: the index wraps one step late.
VolAdvanceWrapsLate(fileidx, nb_restart_cycle) == np_mod(fileidx + 1, nb_restart_cycle + 1)

\* Mutant: the index never wraps.
VolAdvanceNoWrap(fileidx, nb_restart_cycle) == fileidx + 1

\* Line 94: fileidx = np.mod(fileidx + 1, nb_restart_cycle)
VolAdvance(fileidx, nb_restart_cycle) == np_mod(fileidx + 1, nb_restart_cycle)

\* Mutant: the batch is closed one sample late.
VolBatchDoneLate(batch_idx, batch_size) == batch_idx = batch_size

\* Line 153: batch_done = batch_idx == batch_size - 1
VolBatchDone(batch_idx, batch_size) == batch_idx = batch_size - 1

\* Line 154: files_done = np.mod(fileidx + 1, nb_restart_cycle) == 0
VolFilesDone(fileidx, nb_restart_cycle) == np_mod(fileidx + 1, nb_restart_cycle) = 0

\* Mutant: the policy flag is ignored.
VolFinalBatchAlways(yield_incomplete_final_batch, files_done) == files_done

\* Line 155: final_batch = (yield_incomplete_final_batch and files_done)
VolFinalBatch(yield_incomplete_final_batch, files_done) ==
    yield_incomplete_final_batch /\ files_done

\* Mutant: the check of the cycle length is left out.
VolCycleFitsAlways(nb_restart_cycle, nb_files, nb_patches_per_vol) == TRUE

\* Line 77: assert nb_restart_cycle <= (nb_files * nb_patches_per_vol)
VolCycleFits(nb_restart_cycle, nb_files, nb_patches_per_vol) ==
    nb_restart_cycle <= nb_files * nb_patches_per_vol

\* The last patch of the last sample of a batch.
LastPatch(batch) == LET e == batch[Len(batch)] IN e[Len(e)]

\* Line 133: np.any(np.isnan(lpatch)); its result is a numpy bool, whose ~ is
\* the logical negation.
np_any_isnan(lpatch, nan_at) ==
    \E i \in 1..Len(lpatch) : \E j \in 1..Len(lpatch[i]) : lpatch[i][j] \in nan_at

\* Mutant: the test for infinite values always passes.
np_all_isfiniteAlways(lpatch, nan_at, inf_at) == TRUE

\* Line 134: np.all(np.isfinite(lpatch)); a not-a-number is not finite either.
np_all_isfinite(lpatch, nan_at, inf_at) ==
    \A i \in 1..Len(lpatch) : \A j \in 1..Len(lpatch[i]) :
       lpatch[i][j] \notin (nan_at \cup inf_at)

\* The generator object returned by the call vol(...) with patch_size=None;
\* shape[f] is the number of voxels of file f along its one axis. (npatch, kept
\* for the properties, is what the grid of each file comes to once the first
\* file's shape has become the patch size.)
vol_no_patch_size(nb_files, shape, batch_size, nb_restart_cycle, nb_feats, yield_incomplete_final_batch) ==
    [vol(nb_files, [f \in 0..(nb_files - 1) |-> gridsize(shape[f], shape[0], 1)], batch_size,
         nb_restart_cycle, nb_feats, yield_incomplete_final_batch)
       EXCEPT !.shape = shape, !.arg_patch_size = None, !.patch_size = None]

RECURSIVE VolWhile(_), VolFor(_)

\* Lines 131-164: the for loop over the patches of the current file, run up to
\* the next yield; when the file is exhausted, the next turn of `while 1`.
VolFor(v) ==
    LET pg == PatchNext(v.patch_gen) IN
    IF pg.pc = "error"
    THEN [v EXCEPT !.patch_gen = pg, !.pc = "error", !.exc = pg.exc]   \* patch() raised: propagates
    ELSE IF pg.pc = "done"
    THEN IF v.empty_gen
         THEN [v EXCEPT !.patch_gen = pg, !.pc = "error",  \* raise ValueError
                        !.exc = "ValueError: Patch generator was empty"]
         ELSE Eval(VolWhile, [v EXCEPT !.patch_gen = pg])
    ELSE IF ~(~np_any_isnan(pg.patch_data_batch, v.nan_at))
    THEN [v EXCEPT !.patch_gen = pg, !.empty_gen = FALSE, !.pc = "error",
                   !.exc = "AssertionError: Found a nan", !.exc_file = v.fileidx]
    ELSE IF ~np_all_isfinite(pg.patch_data_batch, v.nan_at, v.inf_at)
    THEN [v EXCEPT !.patch_gen = pg, !.empty_gen = FALSE, !.pc = "error",
                   !.exc = "AssertionError: Found a inf", !.exc_file = v.fileidx]
    ELSE
    LET lpatch == pg.patch_data_batch
        feats == IF np_mod(v.feat_idx, v.nb_feats) = 0 THEN lpatch
                 ELSE concatenate(v.vol_data_feats, lpatch)
        v1 == [v EXCEPT !.patch_gen = pg, !.empty_gen = FALSE,
                        !.vol_data_feats = feats, !.feat_idx = @ + 1]
    IN  IF np_mod(v1.feat_idx, v.nb_feats) = 0
        THEN LET batch == IF v.batch_idx = -1 THEN feats
                          ELSE vstack(v.vol_data_batch, feats)
                 v2 == [v1 EXCEPT !.vol_data_batch = batch, !.batch_idx = @ + 1]
                 batch_done == VolBatchDone(v2.batch_idx, v.batch_size)
                 files_done == VolFilesDone(v.fileidx, v.nb_restart_cycle)
                 final_batch == VolFinalBatch(v.yield_incomplete_final_batch, files_done)
             IN  IF batch_done \/ final_batch
                 THEN [v2 EXCEPT !.batch_idx = -1, !.pc = "yield"]
                 ELSE Eval(VolFor, v2)
        ELSE Eval(VolFor, v1)

\* Lines 93-128: one turn of `while 1` up to the for loop: the next file index,
\* the load of that file, and the patch generator over it.
VolWhile(v) ==
    LET fileidx == VolAdvance(v.fileidx, v.nb_restart_cycle)
        v1 == [v EXCEPT !.fileidx = fileidx, !.loaded = Append(@, fileidx)]
    IN  IF ~ValidIndex(fileidx, v.nb_files)
        THEN [v1 EXCEPT !.pc = "error", !.exc = "IndexError"]   \* re-raised at line 105
        ELSE LET f == FileAt(fileidx, v.nb_files)
                 \* lines 119-121: only a patch_size that is still None is replaced
                 patch_size == IF v.patch_size.none THEN Size(v.shape[f]) ELSE v.patch_size
                 patch_stride == IF v.patch_size.none THEN 1 ELSE v.patch_stride
                 N == gridsize(v.shape[f], patch_size.n, patch_stride)
             IN  Eval(VolFor, [v1 EXCEPT !.patch_size = patch_size, !.patch_stride = patch_stride,
                                         !.patch_gen = patch([id |-> f, N |-> N], 1, FALSE, FALSE),
                                         !.empty_gen = TRUE])

\* Mutant: a file list that differs from the expected one is an error.
VolCheckFilesRaises(v) ==
    IF v.expected_nb_files >= 0 /\ ~(v.nb_files = v.expected_nb_files)
    THEN [v EXCEPT !.pc = "error", !.exc = "AssertionError: number of files do not match"]
    ELSE IF ~v.expected_files.none /\ ~(v.volfiles = v.expected_files.files)
    THEN [v EXCEPT !.pc = "error", !.exc = "AssertionError: file lists did not match"]
    ELSE v

\* Lines 81-87: the number of files is asserted when one is expected; a file
\* list that differs from the expected one is printed to sys.stderr only.
VolCheckFiles(v) ==
    IF v.expected_nb_files >= 0 /\ ~(v.nb_files = v.expected_nb_files)
    THEN [v EXCEPT !.pc = "error", !.exc = "AssertionError: number of files do not match"]
    ELSE IF ~v.expected_files.none /\ ~(v.volfiles = v.expected_files.files)
    THEN [v EXCEPT !.stderr = Append(@, "file lists did not match")]
    ELSE v

\* Lines 60-92: the code before the loop, run by the first next().
VolStart(v) ==
    LET nb_patches_per_vol ==
           IF v.patch_size.none THEN 1
           ELSE gridsize(v.shape[0], v.patch_size.n, v.patch_stride)
    IN
    IF ~(v.nb_files > 0)
    THEN [v EXCEPT !.pc = "error", !.exc = "AssertionError: no files"]   \* assert nb_files > 0
    ELSE IF ~VolCycleFits(v.nb_restart_cycle, v.nb_files, nb_patches_per_vol)
    THEN [v EXCEPT !.pc = "error",         \* assert nb_restart_cycle <= nb_files * nb_patches_per_vol
                   !.exc = "AssertionError: restart cycle too big"]
    ELSE LET v1 == VolCheckFiles(v) IN
         IF v1.pc = "error" THEN v1 ELSE VolWhile(v1)

\* next(gen) on a vol() generator
VolNext(v) ==
    CASE v.pc = "start" -> VolStart(v)
      [] v.pc = "yield" -> VolFor(v)
      [] OTHER          -> v               \* finished by an exception: StopIteration

\* ---------------------------------------------------- a consumer of vol()
\* The scenario of the specification: 3 volumes of 8 patches, batches of 5,
\* the incomplete final batch yielded, a cycle of 3 files.
Scenario == vol(3, [f \in 0..2 |-> 8], 5, 3, 1, TRUE)

\* g is the generator returned by a call vol(...): the directories, patch
\* grids, data and options a run is started with. Finite data over any grids
\* and any cycle length; one not-a-number or infinite patch in a directory of
\* equal grids; no patch size over volumes of any shapes; the scenario.
VolCalls(g) ==
    \/ \E nf \in 1..MaxFiles :
          \E np \in [0..(nf - 1) -> 0..MaxGrid], B \in 1..MaxBatch,
             L \in (-MaxFiles)..(MaxFiles + 1), F \in 1..MaxFeats, y \in BOOLEAN :
             g = vol(nf, np, B, L, F, y)
    \/ \E nf \in 1..MaxFiles, n \in 1..MaxGrid, B \in 1..MaxBatch,
          L \in 1..MaxFiles, F \in 1..MaxFeats, y \in BOOLEAN :
          \E f \in 0..(nf - 1), k \in 1..n :
             \/ g = [vol(nf, [i \in 0..(nf - 1) |-> n], B, L, F, y) EXCEPT !.nan_at = {<<f, k>>}]
             \/ g = [vol(nf, [i \in 0..(nf - 1) |-> n], B, L, F, y) EXCEPT !.inf_at = {<<f, k>>}]
    \/ \E nf \in 1..MaxFiles :
          \E shape \in [0..(nf - 1) -> 1..MaxGrid], B \in 1..MaxBatch,
             L \in 1..MaxFiles, F \in 1..MaxFeats, y \in BOOLEAN :
             g = vol_no_patch_size(nf, shape, B, L, F, y)
    \/ g = Scenario

InitVol ==
    /\ VolCalls(vgen)
    /\ vout = <<>>
    /\ pgen = Off /\ pout = <<>>
    /\ cgen = Off /\ cout = <<>>
    /\ sgen = Off /\ sout = <<>>
    /\ rel = Off
    /\ call = Off /\ lst = Off
    /\ egen = Off /\ eout = <<>>
    /\ igen = Off /\ iout = <<>>
    /\ mgen = Off /\ mout = Off
    /\ rgen = Off /\ rout = Off

\* next(vgen)
VolPull ==
    /\ vgen.pc \in {"start", "yield"}
    /\ Len(vout) < MaxPulls
    /\ vgen' = VolNext(vgen)
    /\ vout' = IF vgen'.pc = "yield" THEN Append(vout, vgen'.vol_data_batch) ELSE vout
    /\ UNCHANGED <<pgen, pout, cgen, cout, sgen, sout, rel, call, lst, egen, eout, igen, iout,
                 mgen, mout, rgen, rout>>

NextVol == VolPull

SpecVol == InitVol /\ [][NextVol]_vars

\* Before the call vol(...): no generator yet.
InitClosed ==
    /\ pgen = Off /\ pout = <<>>
    /\ vgen = Off /\ vout = <<>>
    /\ cgen = Off /\ cout = <<>>
    /\ sgen = Off /\ sout = <<>>
    /\ rel = Off
    /\ call = Off /\ lst = Off
    /\ egen = Off /\ eout = <<>>
    /\ igen = Off /\ iout = <<>>
    /\ mgen = Off /\ mout = Off
    /\ rgen = Off /\ rout = Off

\* The call vol(...), with one feature per sample: nb_feats sets how many
\* patches a sample holds, not whether the next batch comes.
VolOpen ==
    /\ vgen.pc = "off"
    /\ VolCalls(vgen')
    /\ vgen'.nb_feats = 1
    /\ UNCHANGED <<pgen, pout, vout, cgen, cout, sgen, sout, rel, call, lst, egen, eout, igen, iout,
                 mgen, mout, rgen, rout>>

NextVolLive == VolOpen \/ VolPull

\* The consumer keeps pulling: a training loop calls next() again after every
\* batch.
SpecVolLive == InitClosed /\ [][NextVolLive]_vars /\ WF_vars(VolPull)

\* -------------------------------------------------- properties of vol()
\* A configuration that passes the checks before the loop, with the cycle
\* inside the file list and no empty patch grid in the cycle.
VolRuns ==
    /\ vgen.pc # "off"
    /\ vgen.nb_restart_cycle >= 1 /\ vgen.nb_restart_cycle <= vgen.nb_files
    /\ vgen.nb_restart_cycle <= vgen.nb_files * vgen.npatch[0]
    /\ \A f \in 0..(vgen.nb_restart_cycle - 1) : vgen.npatch[f] >= 1

\* The patches of the batches yielded so far, in the order yielded.
VolPatchesOut == Flatten(Flatten(vout))

\* The patch extracted after patch p: the next offset of the file, or the
\* first offset of the next file of the cycle.
NextInCycle(p) ==
    IF p[2] < vgen.npatch[p[1]] THEN <<p[1], p[2] + 1>>
    ELSE <<(p[1] + 1) % vgen.nb_restart_cycle, 1>>

\* The vol() generator g as it was when the call returned it, opened with a
\* patch size over finite data.
VolFresh(g) ==
    vol(g.nb_files, g.npatch, g.batch_size, g.nb_restart_cycle, g.nb_feats,
        g.yield_incomplete_final_batch)

RECURSIVE VolAfter(_, _)
\* The vol() generator v after k pulls.
VolAfter(v, k) == IF k = 0 THEN v ELSE VolNext(VolAfter(v, k - 1))

\* nb_patches_per_vol of lines 71-73
NbPatchesPerVol == IF vgen.arg_patch_size.none THEN 1 ELSE vgen.npatch[0]

\* No patch of the directory holds a not-a-number or an infinite value.
FiniteData == vgen.nan_at = {} /\ vgen.inf_at = {}

IsScenario ==
    /\ vgen.pc # "off" /\ FiniteData /\ ~vgen.arg_patch_size.none
    /\ vgen.nb_files = 3 /\ vgen.npatch = [f \in 0..2 |-> 8]
    /\ vgen.batch_size = 5 /\ vgen.nb_restart_cycle = 3
    /\ vgen.nb_feats = 1 /\ vgen.yield_incomplete_final_batch

\* C6: in the scenario (3 volumes of 8 patches, batch_size 5, incomplete final
\* batch yielded, cycle of 3) the realized batch sizes are 5,5,5,5,4 over a
\* cycle, and again on every following cycle.
C6_ScenarioBatchSizes ==
    IsScenario =>
       \A k \in 1..Len(vout) : Len(vout[k]) = <<5, 5, 5, 5, 4>>[((k - 1) % 5) + 1]

\* C7: with yield_incomplete_final_batch=True a batch smaller than batch_size
\* is only the final batch of a cycle: it ends with the last patch of the last
\* file of the cycle.
C7_PartialOnlyAtCycleEnd ==
    (VolRuns /\ vgen.yield_incomplete_final_batch) =>
       \A k \in 1..Len(vout) :
          Len(vout[k]) < vgen.batch_size =>
             LastPatch(vout[k]) =
                <<vgen.nb_restart_cycle - 1, vgen.npatch[vgen.nb_restart_cycle - 1]>>

\* C8: with yield_incomplete_final_batch=False every yielded batch has exactly
\* batch_size samples, and the patches of the batches laid end to end follow
\* the cycle order with none dropped: what was held at a cycle wrap opens the
\* next batch.
C8_HoldAcrossCycle ==
    (vgen.pc # "off" /\ vgen.batch_size >= 1 /\ vgen.nb_restart_cycle >= 1
        /\ ~vgen.yield_incomplete_final_batch) =>
       /\ \A k \in 1..Len(vout) : Len(vout[k]) = vgen.batch_size
       /\ LET flat == VolPatchesOut IN
          /\ Len(flat) >= 1 => flat[1] = <<0, 1>>
          /\ \A i \in 1..(Len(flat) - 1) : flat[i + 1] = NextInCycle(flat[i])

\* A batch that holds the last patch of a cycle followed by the first patch
\* of the next cycle.
C8_Witness ==
    /\ VolRuns /\ ~vgen.yield_incomplete_final_batch /\ vgen.pc = "yield"
    /\ vgen.batch_size >= 2
    /\ LET b == Flatten(vgen.vol_data_batch) IN
       \E i \in 1..(Len(b) - 1) :
          /\ b[i] = <<vgen.nb_restart_cycle - 1, vgen.npatch[vgen.nb_restart_cycle - 1]>>
          /\ b[i + 1] = <<0, 1>>

\* C9: every batch yielded by vol() has between 1 and batch_size samples, and
\* the accumulation counter is -1 (empty) whenever the generator is suspended
\* at its yield.
C9_RealizedSizeBounds ==
    (vgen.pc # "off" /\ vgen.batch_size >= 1) =>
       /\ \A k \in 1..Len(vout) : 1 <= Len(vout[k]) /\ Len(vout[k]) <= vgen.batch_size
       /\ vgen.pc = "yield" => vgen.batch_idx = -1

\* Both a full batch and a smaller one were yielded.
C9_Witness ==
    /\ vgen.pc = "yield" /\ vgen.batch_size >= 2
    /\ \E j, k \in 1..Len(vout) :
          Len(vout[j]) = vgen.batch_size /\ Len(vout[k]) < vgen.batch_size

\* C10: with cycle length L >= 1 the file index runs 0, 1, ..., L-1, 0, ...:
\* the i-th advance gives (i-1) mod L, which lies in [0, L); L advances later
\* the index is the same; and of any L consecutive advances exactly one gives
\* the index L-1 at which files_done holds.
C10_CycleWraparound ==
    (vgen.pc # "off" /\ vgen.nb_restart_cycle >= 1) =>
       LET L == vgen.nb_restart_cycle
           adv == vgen.loaded
       IN  /\ \A i \in 1..Len(adv) : adv[i] = (i - 1) % L /\ 0 <= adv[i] /\ adv[i] < L
           /\ \A i \in 1..(Len(adv) - L) : adv[i + L] = adv[i]
           /\ \A i \in 1..(Len(adv) - L + 1) :
                 Cardinality({j \in i..(i + L - 1) : VolFilesDone(adv[j], L)}) = 1
           /\ \A i \in 1..Len(adv) : VolFilesDone(adv[i], L) <=> adv[i] = L - 1
           /\ Len(adv) >= 1 => vgen.fileidx = adv[Len(adv)]

\* More than two whole cycles of at least two files were advanced through.
C10_Witness ==
    /\ vgen.pc = "yield" /\ vgen.nb_restart_cycle >= 2
    /\ Len(vgen.loaded) > 2 * vgen.nb_restart_cycle

\* C11: when nb_restart_cycle is greater than nb_files * nb_patches_per_vol the
\* first pull ends in the assertion error of the cycle check, with no file of
\* the loop loaded, and no batch is ever yielded.
C11_CycleTooBigFailsFirst ==
    (vgen.pc # "off" /\ vgen.nb_restart_cycle > vgen.nb_files * NbPatchesPerVol) =>
       /\ vout = <<>>
       /\ vgen.pc \in {"start", "error"}
       /\ vgen.pc = "error" =>
             vgen.exc = "AssertionError: restart cycle too big" /\ vgen.loaded = <<>>

\* The first pull failed on a cycle longer than the patches of a non-empty grid.
C11_Witness ==
    /\ vgen.pc = "error" /\ vgen.npatch[0] >= 1 /\ vgen.nb_files >= 2
    /\ vgen.nb_restart_cycle > vgen.nb_files * NbPatchesPerVol
    /\ vgen.exc = "AssertionError: restart cycle too big"

\* The patches that hold a value that is not finite.
NonFinite == vgen.nan_at \cup vgen.inf_at

\* Patch p is extracted before patch q in the first cycle.
Earlier(p, q) == p[1] < q[1] \/ (p[1] = q[1] /\ p[2] < q[2])

\* C14: no yielded batch holds a patch with a not-a-number or infinite value,
\* nor a patch extracted after one; the generator that has taken such a patch
\* from the grid is ended by the assertion error naming the file of that
\* patch; and the batches yielded before are those the stream yields over the
\* same directory with finite data.
C14_NonFiniteNeverYielded ==
    (vgen.pc # "off" /\ NonFinite # {} /\ vgen.nb_restart_cycle >= 1) =>
       /\ \A i \in 1..Len(VolPatchesOut) : \A b \in NonFinite :
             VolPatchesOut[i] # b /\ Earlier(VolPatchesOut[i], b)
       /\ \A k \in 1..Len(vout) : vout[k] = VolAfter(VolFresh(vgen), k).vol_data_batch
       /\ (vgen.patch_gen.pc # "off" /\ vgen.patch_gen.patch_data_batch # <<>>
             /\ LastPatch(vgen.patch_gen.patch_data_batch) \in NonFinite) =>
             /\ vgen.pc = "error"
             /\ vgen.exc \in {"AssertionError: Found a nan", "AssertionError: Found a inf"}
             /\ vgen.exc_file = LastPatch(vgen.patch_gen.patch_data_batch)[1]
       /\ vgen.exc \in {"AssertionError: Found a nan", "AssertionError: Found a inf"} =>
             LastPatch(vgen.patch_gen.patch_data_batch) \in NonFinite

\* The stream yielded batches and then failed on an infinite value in the
\* second file, with a sample held back.
C14_Witness ==
    /\ vgen.pc = "error" /\ vgen.exc = "AssertionError: Found a inf"
    /\ vgen.exc_file = 1 /\ Len(vout) >= 1 /\ vgen.batch_idx >= 0

\* C12: when nb_restart_cycle is 0 or negative the stream fails before it
\* yields any batch.
C12_CycleBelowOneFails ==
    (vgen.pc # "off" /\ vgen.nb_restart_cycle < 1) =>
       /\ vout = <<>>
       /\ vgen.pc \in {"start", "error"}

\* C16: when vol() is opened without a patch size (and the cycle lies inside
\* the file list), every file loaded is cut into exactly one patch, the whole
\* volume, whatever the shapes of the volumes: the stream does not fail and
\* every patch yielded is the first and only offset of its file.
C16_NoPatchSizeWholeVolume ==
    (vgen.pc # "off" /\ vgen.arg_patch_size.none
        /\ vgen.nb_restart_cycle >= 1 /\ vgen.nb_restart_cycle <= vgen.nb_files) =>
       /\ vgen.pc # "error"
       /\ vgen.patch_gen.pc # "off" => vgen.patch_gen.vol_data.N = 1
       /\ \A i \in 1..Len(VolPatchesOut) : VolPatchesOut[i][2] = 1

\* C18: every sample of every batch of vol() holds exactly nb_feats patches;
\* the samples laid end to end are the patches in extraction order, so that
\* sample j is made of the patches nb_feats*(j-1)+1 .. nb_feats*j extracted;
\* a batch holds at most batch_size samples; and whenever a batch is yielded
\* the number of patches taken so far is a multiple of nb_feats.
C18_FeatureGroups ==
    (vgen.pc # "off" /\ vgen.nb_restart_cycle >= 1) =>
       /\ \A k \in 1..Len(vout) :
             /\ Len(vout[k]) <= vgen.batch_size
             /\ ~vgen.yield_incomplete_final_batch => Len(vout[k]) = vgen.batch_size
             /\ \A i \in 1..Len(vout[k]) : Len(vout[k][i]) = vgen.nb_feats
       /\ LET flat == VolPatchesOut IN
          /\ Len(flat) >= 1 => flat[1] = <<0, 1>>
          /\ \A i \in 1..(Len(flat) - 1) : flat[i + 1] = NextInCycle(flat[i])
       /\ vgen.pc = "yield" =>
             /\ vgen.feat_idx % vgen.nb_feats = 0
             /\ vgen.feat_idx = Len(VolPatchesOut)

\* A batch of two samples of two patches each, one sample made of the last
\* patch of a file and the first patch of the next.
C18_Witness ==
    /\ vgen.pc = "yield" /\ vgen.nb_feats = 2 /\ Len(vgen.vol_data_batch) >= 2
    /\ \E i \in 1..Len(vgen.vol_data_batch) :
          vgen.vol_data_batch[i][1][1] # vgen.vol_data_batch[i][2][1]

\* C20: over a non-empty file list, with batch_size >= 1, a cycle inside the
\* file list, no empty grid in the cycle and finite data, vol() is never ended
\* (it has no normal end, and no exception is raised), every pull returns a
\* batch, and a consumer that keeps pulling receives batch after batch.
C20_InfiniteStream ==
    /\ []((VolRuns /\ FiniteData) => vgen.pc \in {"start", "yield"})
    /\ [][(VolRuns /\ FiniteData) =>
             (vgen'.pc = "yield" /\ Len(vout') = Len(vout) + 1)]_vars
    /\ (VolRuns /\ FiniteData) ~> (Len(vout) = MaxPulls)

\* The consumer has received every batch it pulled, over more than two
\* cycles of a directory of two files.
C20_Witness ==
    /\ VolRuns /\ FiniteData /\ vgen.pc = "yield" /\ Len(vout) = MaxPulls
    /\ vgen.nb_restart_cycle = 2 /\ Len(vgen.loaded) > 2 * vgen.nb_restart_cycle

RECURSIVE CycleFrom(_, _, _)
\* The next n patches of the file cycle from offset k of file f on: the files
\* 0 .. nb_restart_cycle-1 in turn, each in grid order.
CycleFrom(f, k, n) ==
    IF n = 0 THEN <<>>
    ELSE IF k > vgen.npatch[f] THEN CycleFrom((f + 1) % vgen.nb_restart_cycle, 1, n)
    ELSE << <<f, k>> >> \o CycleFrom(f, k + 1, n - 1)

\* The samples of all the batches yielded so far, in the order yielded.
VolSamplesOut == Flatten(vout)

\* C25: the samples of the batches yielded, laid end to end, are the logical
\* samples in extraction order: sample j is made of the patches
\* nb_feats*(j-1)+1 .. nb_feats*j of the file cycle (files in cycle order, each
\* in grid order), none left out, repeated or moved; and when a batch has just
\* been yielded every sample extracted so far is in a yielded batch, none is
\* held back and none is in two batches.
C25_NoDropDupReorder ==
    (vgen.pc # "off" /\ vgen.nb_restart_cycle >= 1) =>
       LET F == vgen.nb_feats
           order == CycleFrom(0, 1, F * Len(VolSamplesOut))
       IN  /\ \A j \in 1..Len(VolSamplesOut) :
                 VolSamplesOut[j] = SubSeq(order, F * (j - 1) + 1, F * j)
           /\ vgen.pc = "yield" =>
                 /\ vgen.batch_idx = -1
                 /\ F * Len(VolSamplesOut) = vgen.feat_idx
                 /\ vout[Len(vout)] = vgen.vol_data_batch

\* Batches of several samples of two patches each were yielded over more than
\* one cycle of two files of different grids.
C25_Witness ==
    /\ vgen.pc = "yield" /\ vgen.nb_feats = 2 /\ vgen.batch_size >= 2
    /\ vgen.nb_restart_cycle = 2 /\ vgen.npatch[0] # vgen.npatch[1]
    /\ Len(vgen.loaded) > 2 /\ Len(vout) >= 2
    /\ Len(VolSamplesOut) >= 4

\* The configuration of vgen passes the checks made before the loop.
PassesChecks ==
    /\ vgen.pc # "off" /\ vgen.nb_files > 0
    /\ VolCycleFits(vgen.nb_restart_cycle, vgen.nb_files, NbPatchesPerVol)

\* C27: for a configuration that passes the checks before the loop (here with
\* a cycle length of 1 or more), every file index the loop computes is an
\* index of the file list, 0 <= fileidx < nb_files, and no load fails on it.
C27_FileIndexValid ==
    (PassesChecks /\ vgen.nb_restart_cycle >= 1) =>
       /\ \A i \in 1..Len(vgen.loaded) : 0 <= vgen.loaded[i] /\ vgen.loaded[i] < vgen.nb_files
       /\ vgen.exc # "IndexError"

\* ------------------------------------------------------------ vol_seg()
\* A file name is <<subject, subname, extension>>: the subject it belongs to,
\* the part of the name that tells volumes from segmentations, and its ending.
\* f.replace(old, new) on a file name.
replace(f, old, new) == IF f[2] = old THEN <<f[1], new, f[3]>> ELSE f

\* The sorted listing of a directory that holds one file of the given subname
\* for each of the subjects ids[0], ids[1], ...
Listing(ids, subname) == [f \in DOMAIN ids |-> <<ids[f], subname, ".npz">>]

\* The subjects 0 .. n-1
Subjects(n) == [f \in 0..(n - 1) |-> f]

\* The generator object returned by vol_seg(volpath, segpath, ...) over the
\* listings volfiles and segfiles of the two directories (rand_seed_vol=None);
\* npatch_vol and npatch_seg are the grid sizes of their volumes. batch_size,
\* the cycle length and the final-batch policy reach both vol() calls through
\* **kwargs; nb_feats is given to the input stream only; the listing of
\* volpath, with vol_subname replaced by seg_subname, is what the target
\* stream expects to find.
vol_seg_paths(volfiles, segfiles, npatch_vol, npatch_seg, batch_size, nb_restart_cycle, nb_input_feats, yield_incomplete_final_batch) ==
    LET vol_files == [f \in DOMAIN volfiles |-> replace(volfiles[f], "norm", "aseg")] IN
    [pc |-> "start",
     vol_gen |-> [vol(Cardinality(DOMAIN volfiles), [f \in DOMAIN volfiles |-> npatch_vol],
                      batch_size, nb_restart_cycle, nb_input_feats,
                      yield_incomplete_final_batch)
                    EXCEPT !.volfiles = volfiles],
     seg_gen |-> [vol(Cardinality(DOMAIN segfiles), [f \in DOMAIN segfiles |-> npatch_seg],
                      batch_size, nb_restart_cycle, 1, yield_incomplete_final_batch)
                    EXCEPT !.volfiles = segfiles, !.expected_files = Files(vol_files)],
     input_vol |-> <<>>,
     output_vol |-> <<>>]

\* vol_seg() over two directories that hold the files of the same nb_files
\* subjects.
vol_seg(nb_files, npatch_vol, npatch_seg, batch_size, nb_restart_cycle, nb_input_feats, yield_incomplete_final_batch) ==
    vol_seg_paths(Listing(Subjects(nb_files), "norm"), Listing(Subjects(nb_files), "aseg"),
                  npatch_vol, npatch_seg, batch_size, nb_restart_cycle, nb_input_feats,
                  yield_incomplete_final_batch)

\* Lines 274-280: one turn of the loop, given what next(vol_gen) and
\* next(seg_gen) leave behind; seg_gen is not pulled when vol_gen raised.
VolSegYield(s, vg, sg) ==
    IF vg.pc # "yield"
    THEN [s EXCEPT !.vol_gen = vg, !.pc = "error"]
    ELSE IF sg.pc # "yield"
    THEN [s EXCEPT !.vol_gen = vg, !.seg_gen = sg, !.pc = "error"]
    ELSE [s EXCEPT !.vol_gen = vg, !.seg_gen = sg, !.pc = "yield",
                   !.input_vol = vg.vol_data_batch,
                   !.output_vol = sg.vol_data_batch]

\* Mutant: the target stream is pulled twice for each pair.
VolSegNextPullsTwice(s) ==
    IF s.pc \notin {"start", "yield"} THEN s
    ELSE CHOOSE r \in {VolSegYield(s, vg, sg) :
                          vg \in {VolNext(s.vol_gen)},
                          sg \in {VolNext(VolNext(s.seg_gen))}} : TRUE

\* Lines 258-280: next(gen) on a vol_seg() generator: one batch from each
\* stream. (The two pulls are bound as set elements so that each is computed
\* once.)
VolSegNext(s) ==
    IF s.pc \notin {"start", "yield"} THEN s
    ELSE CHOOSE r \in {VolSegYield(s, vg, sg) :
                          vg \in {VolNext(s.vol_gen)}, sg \in {VolNext(s.seg_gen)}} : TRUE

\* ------------------------------------------------- a consumer of vol_seg()
\* The subjects a segmentation directory holds, beside a volume directory of
\* the subjects 0 .. nf-1: the same subjects, the last one another subject,
\* or one subject more.
SegDirs(nf) ==
    {Subjects(nf), [Subjects(nf) EXCEPT ![nf - 1] = nf], Subjects(nf + 1)}

InitSeg ==
    /\ \E nf \in 1..MaxFiles, nv \in 0..MaxGrid, ns \in 0..MaxGrid, B \in 1..MaxBatch,
          L \in 1..MaxFiles, F \in 1..MaxFeats, y \in BOOLEAN :
          \E segids \in SegDirs(nf) :
             sgen = vol_seg_paths(Listing(Subjects(nf), "norm"), Listing(segids, "aseg"),
                                  nv, ns, B, L, F, y)
    /\ sout = <<>>
    /\ pgen = Off /\ pout = <<>>
    /\ vgen = Off /\ vout = <<>>
    /\ cgen = Off /\ cout = <<>>
    /\ rel = Off
    /\ call = Off /\ lst = Off
    /\ egen = Off /\ eout = <<>>
    /\ igen = Off /\ iout = <<>>
    /\ mgen = Off /\ mout = Off
    /\ rgen = Off /\ rout = Off

\* next(sgen)
SegPull ==
    /\ sgen.pc \in {"start", "yield"}
    /\ Len(sout) < MaxPulls
    /\ sgen' = VolSegNext(sgen)
    /\ sout' = IF sgen'.pc = "yield"
               THEN Append(sout, [input |-> sgen'.input_vol, target |-> sgen'.output_vol])
               ELSE sout
    /\ UNCHANGED <<pgen, pout, vgen, vout, cgen, cout, rel, call, lst, egen, eout, igen, iout,
                 mgen, mout, rgen, rout>>

NextSeg == SegPull

SpecSeg == InitSeg /\ [][NextSeg]_vars

\* ------------------------------------------------ properties of vol_seg()
\* The two streams of sgen were opened with the same file count, cycle length,
\* batch size, final-batch policy and patches per volume, and nb_input_feats=1.
SameStreams == sgen.pc # "off" /\ VolFresh(sgen.vol_gen) = VolFresh(sgen.seg_gen)

\* C13: the k-th pair yielded by vol_seg holds the k-th batch of the input
\* stream and the k-th batch of the target stream (one pull of each per pair);
\* when the two streams were opened alike, the two batches of every pair have
\* the same size and hold the same patches of the same files.
C13_PairedStreamsAligned ==
    sgen.pc # "off" =>
       \A k \in 1..Len(sout) :
          /\ sout[k].input = VolAfter(VolFresh(sgen.vol_gen), k).vol_data_batch
          /\ sout[k].target = VolAfter(VolFresh(sgen.seg_gen), k).vol_data_batch
          /\ SameStreams =>
                /\ Len(sout[k].input) = Len(sout[k].target)
                /\ sout[k].input = sout[k].target

\* Streams opened alike, past a cycle wrap, with pairs of different sizes.
C13_Witness ==
    /\ SameStreams /\ sgen.pc = "yield" /\ Len(sout) >= 3
    /\ sgen.vol_gen.nb_restart_cycle >= 2
    /\ Len(sgen.vol_gen.loaded) > sgen.vol_gen.nb_restart_cycle
    /\ \E j, k \in 1..Len(sout) : Len(sout[j].input) # Len(sout[k].input)
    /\ sout[Len(sout)].input = sout[Len(sout)].target

\* The target stream of sgen found a file list that differs from the list
\* expected from the input directory.
SegMismatch ==
    /\ sgen.pc # "off" /\ ~sgen.seg_gen.expected_files.none
    /\ sgen.seg_gen.volfiles # sgen.seg_gen.expected_files.files

\* The vol() generator v had it been opened without expected_files.
Unchecked(v) == [v EXCEPT !.expected_files = NoFiles, !.stderr = <<>>]

\* C21: a target file list that differs from the expected one raises no
\* error of its own; once the checks before the loop have passed, exactly one
\* line has been printed to sys.stderr (none when the lists agree); and every
\* pull leaves the target stream in the state the same pull leaves a stream
\* opened without an expected list in, so that it yields whenever that one
\* does.
C21_MismatchOnlyWarns ==
    /\ [](sgen.pc # "off" =>
            /\ sgen.seg_gen.exc \notin {"AssertionError: file lists did not match",
                                        "AssertionError: number of files do not match"}
            /\ sgen.seg_gen.stderr =
                  IF SegMismatch /\ sgen.seg_gen.loaded # <<>>
                  THEN <<"file lists did not match">> ELSE <<>>)
    /\ [][(SegMismatch /\ sgen'.seg_gen # sgen.seg_gen) =>
             Unchecked(sgen'.seg_gen) = VolNext(Unchecked(sgen.seg_gen))]_vars

\* Pairs were yielded past the warning, over a segmentation directory that
\* holds one file more than the volume directory.
C21_Witness ==
    /\ SegMismatch /\ sgen.pc = "yield" /\ Len(sout) >= 2
    /\ sgen.seg_gen.stderr = <<"file lists did not match">>
    /\ sgen.seg_gen.nb_files = sgen.vol_gen.nb_files + 1

\* ------------------------------------------------------ vol_seg_prior()
\* The generator object returned by vol_seg_prior(...) with the prior loaded
\* from a file; nprior is the number of grid offsets of the prior volume.
vol_seg_prior(nb_files, npatch_vol, npatch_seg, batch_size, nb_restart_cycle, nb_input_feats, yield_incomplete_final_batch, nprior) ==
    [pc |-> "start",
     gen |-> vol_seg(nb_files, npatch_vol, npatch_seg, batch_size, nb_restart_cycle,
                     nb_input_feats, yield_incomplete_final_batch),
     prior_gen |-> patch([id |-> -1, N |-> nprior], batch_size, TRUE, TRUE),
     prior_batch |-> <<>>]

\* Mutant: the size of the input batch is sent instead.
PriorSentSizeOfInput(input_vol, output_vol) == Len(input_vol)

\* Line 469: the size sent to the prior stream, output_vol.shape[0]
PriorSentSize(input_vol, output_vol) == Len(output_vol)

\* Lines 468-475: the prior batch for the pair pulled, and the yield.
PriorYield(c, g, pg) ==
    IF pg.pc # "yield"
    THEN [c EXCEPT !.gen = g, !.prior_gen = pg, !.pc = "error"]
    ELSE [c EXCEPT !.gen = g, !.prior_gen = pg, !.pc = "yield",
                   !.prior_batch = pg.patch_data_batch]

\* Lines 463-469: the pair pulled from vol_seg, then the send to the prior stream.
PriorSend(c, g) ==
    IF g.pc # "yield"
    THEN [c EXCEPT !.gen = g, !.pc = "error"]
    ELSE CHOOSE r \in {PriorYield(c, g, pg) :
                          pg \in {PatchSend(c.prior_gen,
                                            Size(PriorSentSize(g.input_vol, g.output_vol)))}} : TRUE

\* Lines 461-475: one turn of the generator loop.
PriorLoop(c) == CHOOSE r \in {PriorSend(c, g) : g \in {VolSegNext(c.gen)}} : TRUE

\* Lines 447-458: the first next(): the handshake with the prior stream.
PriorStart(c) ==
    LET pg == PatchNext(c.prior_gen) IN
    IF PatchReturned(pg).ret # "none"
    THEN [c EXCEPT !.prior_gen = pg, !.pc = "error"]   \* assert next(prior_gen) is None
    ELSE PriorLoop([c EXCEPT !.prior_gen = pg])

\* next(gen) on a vol_seg_prior() generator
PriorNext(c) ==
    CASE c.pc = "start" -> PriorStart(c)
      [] c.pc = "yield" -> PriorLoop(c)
      [] OTHER          -> c

\* -------------------------------------------- a consumer of vol_seg_prior()
InitPrior ==
    /\ \E nf \in 1..MaxFiles, nv \in 1..MaxGrid, ns \in 1..MaxGrid, B \in 1..MaxBatch,
          L \in 1..MaxFiles, F \in 1..MaxFeats, y \in BOOLEAN, np \in 1..MaxGrid :
          cgen = vol_seg_prior(nf, nv, ns, B, L, F, y, np)
    /\ cout = <<>>
    /\ pgen = Off /\ pout = <<>>
    /\ vgen = Off /\ vout = <<>>
    /\ sgen = Off /\ sout = <<>>
    /\ rel = Off
    /\ call = Off /\ lst = Off
    /\ egen = Off /\ eout = <<>>
    /\ igen = Off /\ iout = <<>>
    /\ mgen = Off /\ mout = Off
    /\ rgen = Off /\ rout = Off

\* next(cgen)
PriorPull ==
    /\ cgen.pc \in {"start", "yield"}
    /\ Len(cout) < MaxPulls
    /\ cgen' = PriorNext(cgen)
    /\ cout' = IF cgen'.pc = "yield"
               THEN Append(cout, [input |-> cgen'.gen.input_vol,
                                  target |-> cgen'.gen.output_vol,
                                  prior |-> cgen'.prior_batch])
               ELSE cout
    /\ UNCHANGED <<pgen, pout, vgen, vout, sgen, sout, rel, call, lst, egen, eout, igen, iout,
                 mgen, mout, rgen, rout>>

NextPrior == PriorPull

SpecPrior == InitPrior /\ [][NextPrior]_vars

\* ------------------------------------------ properties of vol_seg_prior()
\* C3: in every tuple yielded by vol_seg_prior the prior batch has as many
\* entries as the target batch pulled for that tuple, the smaller final
\* batches of a cycle included.
C3_PriorMatchesTarget ==
    cgen.pc # "off" =>
       \A k \in 1..Len(cout) :
          /\ Len(cout[k].prior) = Len(cout[k].target)
          /\ Len(cout[k].target) >= 1

\* A full-size tuple followed by a tuple whose target is a smaller final batch.
C3_Witness ==
    /\ cgen.pc = "yield" /\ Len(cout) >= 2
    /\ \E k \in 2..Len(cout) :
          /\ Len(cout[k - 1].target) = cgen.gen.seg_gen.batch_size
          /\ Len(cout[k].target) < Len(cout[k - 1].target)
          /\ Len(cout[k].prior) = Len(cout[k].target)

\* The prior volume of cgen has as many grid offsets as every volume of the
\* two data directories.
SameGrid ==
    /\ cgen.pc # "off"
    /\ \A f \in DOMAIN cgen.gen.seg_gen.npatch :
          cgen.gen.seg_gen.npatch[f] = cgen.prior_gen.vol_data.N
    /\ \A f \in DOMAIN cgen.gen.vol_gen.npatch :
          cgen.gen.vol_gen.npatch[f] = cgen.prior_gen.vol_data.N

\* The grid offset of entry j of a batch (of the first patch of the entry).
OffsetAt(batch, j) == batch[j][1][2]

\* C26: when the prior volume has the patch grid of every data volume, in
\* every tuple yielded by vol_seg_prior the prior patch at position j was cut
\* at the grid offset the target patch at position j was cut at; the prior
\* patches of the tuples laid end to end run through the grid over and over
\* from its first offset, with none left out.
C26_PriorOffsetsAligned ==
    SameGrid =>
       /\ \A k \in 1..Len(cout) :
             /\ Len(cout[k].prior) = Len(cout[k].target)
             /\ \A j \in 1..Len(cout[k].target) :
                   OffsetAt(cout[k].prior, j) = OffsetAt(cout[k].target, j)
       /\ LET flat == Flatten([k \in 1..Len(cout) |-> cout[k].prior]) IN
          \A i \in 1..Len(flat) : flat[i][1][2] = ((i - 1) % cgen.prior_gen.vol_data.N) + 1

\* Tuples were yielded past the end of a cycle: a batch that runs over the
\* end of the grid into its first offset, a smaller batch that begins inside
\* the grid, and a batch after it, each with the prior alongside.
C26_Witness ==
    /\ SameGrid /\ cgen.pc = "yield" /\ cgen.prior_gen.vol_data.N >= 2
    /\ Len(cgen.gen.seg_gen.loaded) > cgen.gen.seg_gen.nb_restart_cycle
    /\ \E k \in 1..Len(cout) :
          /\ Len(cout[k].prior) >= 2
          /\ OffsetAt(cout[k].prior, 1) > OffsetAt(cout[k].prior, 2)
          /\ OffsetAt(cout[k].target, 1) > OffsetAt(cout[k].target, 2)
    /\ \E k \in 2..Len(cout) :
          /\ Len(cout[k - 1].target) < cgen.gen.seg_gen.batch_size
          /\ OffsetAt(cout[k - 1].prior, 1) # 1
          /\ OffsetAt(cout[k].prior, 1) = OffsetAt(cout[k].target, 1)

\* ------------------------------------------------- relabeling in vol()
\* Mutant: the mask is taken from the volume being written, not from the copy.
RelabelAssignInPlace(vol_data, resized_seg_data_fix, idx, val) ==
    [x \in DOMAIN vol_data |-> IF vol_data[x] = val THEN idx ELSE vol_data[x]]

\* Line 116: vol_data[resized_seg_data_fix == val] = idx
RelabelAssign(vol_data, resized_seg_data_fix, idx, val) ==
    [x \in DOMAIN vol_data |-> IF resized_seg_data_fix[x] = val THEN idx ELSE vol_data[x]]

RECURSIVE RelabelFor(_, _, _, _)
\* Lines 115-116: for idx, val in np.ndenumerate(relabel), from position i on.
\* The array index idx counts from 0; relabel[i] is the value at idx = i - 1.
RelabelFor(vol_data, resized_seg_data_fix, relabel, i) ==
    IF i > Len(relabel) THEN vol_data
    ELSE RelabelFor(RelabelAssign(vol_data, resized_seg_data_fix, i - 1, relabel[i]),
                    resized_seg_data_fix, relabel, i + 1)

\* Lines 113-116: resized_seg_data_fix = np.copy(vol_data), then the loop.
Relabel(vol_data, relabel) == RelabelFor(vol_data, vol_data, relabel, 1)

\* The relabel scenario of the specification: voxel values 0, 5, 9 and the
\* relabel array [0, 5, 9], which sends 5 to 1 and 9 to 2.
RelabelScenario == [vol_data |-> <<0, 5, 9>>, relabel |-> <<0, 5, 9>>]

\* A volume fresh from the loader, and the relabel argument of vol().
InitRelabel ==
    /\ \/ \E n \in 1..MaxVox, m \in 0..MaxLabel :
             \E vol_data \in [1..n -> 0..MaxLabel], relabel \in [1..m -> 0..MaxLabel] :
                rel = [pc |-> "loaded", loaded |-> vol_data, vol_data |-> vol_data,
                       relabel |-> relabel]
       \/ rel = [pc |-> "loaded", loaded |-> RelabelScenario.vol_data,
                 vol_data |-> RelabelScenario.vol_data, relabel |-> RelabelScenario.relabel]
    /\ pgen = Off /\ pout = <<>>
    /\ vgen = Off /\ vout = <<>>
    /\ cgen = Off /\ cout = <<>>
    /\ sgen = Off /\ sout = <<>>
    /\ call = Off /\ lst = Off
    /\ egen = Off /\ eout = <<>>
    /\ igen = Off /\ iout = <<>>
    /\ mgen = Off /\ mout = Off
    /\ rgen = Off /\ rout = Off

\* Lines 113-116 on the volume loaded.
RelabelVolume ==
    /\ rel.pc = "loaded"
    /\ rel' = [rel EXCEPT !.pc = "relabeled", !.vol_data = Relabel(rel.vol_data, rel.relabel)]
    /\ UNCHANGED <<pgen, pout, vgen, vout, cgen, cout, sgen, sout, call, lst, egen, eout, igen, iout,
                 mgen, mout, rgen, rout>>

NextRelabel == RelabelVolume

SpecRelabel == InitRelabel /\ [][NextRelabel]_vars

\* ---------------------------------------------- properties of relabeling
\* The positions of value v in the relabel array.
RelabelPositions(v) == {i \in 1..Len(rel.relabel) : rel.relabel[i] = v}

\* The largest element of a non-empty set of integers.
MaxOf(S) == CHOOSE m \in S : \A x \in S : x <= m

\* C17: after relabeling, a voxel whose value as loaded is an old label has
\* the index of that label in the relabel array (the last one, should the
\* label occur twice), and any other voxel has the value it was loaded with;
\* the values as loaded decide alone, a value written by the loop is never
\* matched again.
C17_RelabelByOriginalValue ==
    (rel.pc = "relabeled") =>
       /\ DOMAIN rel.vol_data = DOMAIN rel.loaded
       /\ \A x \in DOMAIN rel.loaded :
             IF RelabelPositions(rel.loaded[x]) = {}
             THEN rel.vol_data[x] = rel.loaded[x]
             ELSE rel.vol_data[x] = MaxOf(RelabelPositions(rel.loaded[x])) - 1

\* The scenario: 0, 5, 9 has become 0, 1, 2.
C17_Witness ==
    /\ rel.pc = "relabeled" /\ rel.loaded = <<0, 5, 9>> /\ rel.relabel = <<0, 5, 9>>
    /\ rel.vol_data = <<0, 1, 2>>

\* ------------------------------------------------------------ ext_data()
\* The generator object returned by ext_data(segpath, volpath, ...): no code
\* has run yet. nb_files is the number of '.npy' files of segpath, first_shape
\* the shape of the volume volpath/expected_files[0], patch_size a Size or
\* None, nb_restart_cycle a Size or None. A batch is a list of fields, each the
\* list of the values of that field in the records gathered; here it is the
\* list of the files whose records were gathered.
ext_data(nb_files, first_shape, patch_size, patch_stride, batch_size, nb_restart_cycle, yield_incomplete_final_batch, expected_files) ==
    [pc |-> "start",
     nb_files |-> nb_files,
     volfiles |-> [f \in 0..(nb_files - 1) |-> <<f, "norm", ".npy">>],
     first_shape |-> first_shape,
     patch_size |-> patch_size,
     patch_stride |-> patch_stride,
     batch_size |-> batch_size,
     nb_restart_cycle |-> nb_restart_cycle,
     yield_incomplete_final_batch |-> yield_incomplete_final_batch,
     expected_nb_files |-> -1,
     expected_files |-> expected_files,
     stderr |-> <<>>,
     nb_patches_per_vol |-> 1,
     fileidx |-> -1,
     batch_idx |-> -1,
     this_ext_data |-> -1,        \* the file the record in hand was read from
     range_pos |-> 0,             \* turns of `for _ in range(nb_patches_per_vol)` taken
     ext_data_batch |-> <<>>,     \* unbound until the first record
     idle |-> {},                 \* the file indices taken since the last record was gathered
     exc |-> "none",
     loaded |-> <<>>]             \* the file indices taken so far, kept for the properties

\* Line 679: fileidx = np.mod(fileidx + 1, nb_restart_cycle)
ExtAdvance(fileidx, nb_restart_cycle) == np_mod(fileidx + 1, nb_restart_cycle)

\* Mutant: the batch is closed one record late.
ExtBatchDoneLate(batch_idx, batch_size) == batch_idx = batch_size

\* Line 693: batch_done = batch_idx == batch_size - 1
ExtBatchDone(batch_idx, batch_size) == batch_idx = batch_size - 1

\* Line 694: files_done = np.mod(fileidx + 1, nb_restart_cycle) == 0
ExtFilesDone(fileidx, nb_restart_cycle) == np_mod(fileidx + 1, nb_restart_cycle) = 0

\* Line 695: final_batch = (yield_incomplete_final_batch and files_done)
ExtFinalBatch(yield_incomplete_final_batch, files_done) ==
    yield_incomplete_final_batch /\ files_done

\* Line 662: assert nb_restart_cycle <= (nb_files * nb_patches_per_vol)
ExtCycleFits(nb_restart_cycle, nb_files, nb_patches_per_vol) ==
    nb_restart_cycle <= nb_files * nb_patches_per_vol

RECURSIVE ExtWhile(_), ExtFor(_)

\* Lines 685-709: the for loop over range(nb_patches_per_vol), run up to the
\* next yield; when the range is exhausted, the next turn of `while 1`.
ExtFor(e) ==
    IF e.range_pos < e.nb_patches_per_vol
    THEN LET batch == IF e.batch_idx = -1 THEN <<e.this_ext_data>>
                      ELSE Append(e.ext_data_batch, e.this_ext_data)
             e1 == [e EXCEPT !.range_pos = @ + 1, !.ext_data_batch = batch,
                             !.batch_idx = @ + 1, !.idle = {}]
             batch_done == ExtBatchDone(e1.batch_idx, e.batch_size)
             files_done == ExtFilesDone(e.fileidx, e.nb_restart_cycle)
             final_batch == ExtFinalBatch(e.yield_incomplete_final_batch, files_done)
         IN  IF batch_done \/ final_batch
             THEN [e1 EXCEPT !.batch_idx = -1, !.pc = "yield"]
             ELSE Eval(ExtFor, e1)
    ELSE Eval(ExtWhile, e)

\* Lines 678-683: one turn of `while 1` up to the for loop: the next file
\* index and the load of that file. With an empty range the loop takes file
\* after file and never yields: once a file index comes back without a record
\* gathered in between, it does so for ever.
ExtWhile(e) ==
    LET fileidx == ExtAdvance(e.fileidx, e.nb_restart_cycle)
        e1 == [e EXCEPT !.fileidx = fileidx, !.loaded = Append(@, fileidx)]
    IN  IF ~ValidIndex(fileidx, e.nb_files)
        THEN [e1 EXCEPT !.pc = "error", !.exc = "IndexError"]
        ELSE IF fileidx \in e.idle
        THEN [e EXCEPT !.pc = "hang"]
        ELSE Eval(ExtFor, [e1 EXCEPT !.this_ext_data = FileAt(fileidx, e.nb_files),
                                     !.range_pos = 0, !.idle = @ \cup {fileidx}])

\* Lines 666-672: the number of files is asserted when one is expected; a file
\* list that differs from the expected one is printed to sys.stderr only.
ExtCheckFiles(e) ==
    IF e.expected_nb_files >= 0 /\ ~(e.nb_files = e.expected_nb_files)
    THEN [e EXCEPT !.pc = "error", !.exc = "AssertionError: number of files do not match"]
    ELSE IF ~e.expected_files.none /\ ~(e.volfiles = e.expected_files.files)
    THEN [e EXCEPT !.stderr = Append(@, "file lists did not match !!!")]
    ELSE e

\* Lines 645-677: the code before the loop, run by the first next().
ExtStart(e) ==
    IF ~(e.nb_files > 0)
    THEN [e EXCEPT !.pc = "error", !.exc = "AssertionError: no files"]   \* assert nb_files > 0
    ELSE IF e.expected_files.none
    THEN [e EXCEPT !.pc = "error", !.exc = "TypeError"]                  \* None[0]
    ELSE IF DOMAIN e.expected_files.files = {}
    THEN [e EXCEPT !.pc = "error", !.exc = "IndexError"]                 \* [][0]
    ELSE
    LET nb_patches_per_vol ==
           IF e.patch_size.none THEN 1
           ELSE gridsize(e.first_shape, e.patch_size.n, e.patch_stride)
        nb_restart_cycle ==
           IF e.nb_restart_cycle.none THEN e.nb_files ELSE e.nb_restart_cycle.n
        e1 == [e EXCEPT !.nb_patches_per_vol = nb_patches_per_vol,
                        !.nb_restart_cycle = nb_restart_cycle]
    IN  IF ~ExtCycleFits(nb_restart_cycle, e.nb_files, nb_patches_per_vol)
        THEN [e1 EXCEPT !.pc = "error",
                        !.exc = "AssertionError: restart cycle too big"]
        ELSE LET e2 == ExtCheckFiles(e1) IN
             IF e2.pc = "error" THEN e2 ELSE ExtWhile(e2)

\* next(gen) on an ext_data() generator
ExtNext(e) ==
    CASE e.pc = "start" -> ExtStart(e)
      [] e.pc = "yield" -> ExtFor(e)
      [] OTHER          -> e               \* finished by an exception: StopIteration

\* -------------------------------------------------------- vol_ext_data()
\* The generator object returned by vol_ext_data(volpath, segpath, ...) over
\* nf_vol volumes of the shapes given and nf_seg records (rand_seed_vol=None,
\* the default subnames): the patch size (of one voxel, or none), batch_size
\* and the final-batch policy reach both calls through **kwargs, the cycle
\* length is given to both, nb_feats to the input stream only; the listing of
\* volpath is what ext_data() is told to expect, and its first entry names the
\* volume ext_data() measures.
vol_ext_data(nf_vol, shape, with_patch_size, nf_seg, batch_size, nb_restart_cycle, nb_input_feats, yield_incomplete_final_batch) ==
    LET volfiles == Listing(Subjects(nf_vol), "norm")
        vol_files == [f \in DOMAIN volfiles |-> replace(volfiles[f], "norm", "norm")]
        cycle == IF nb_restart_cycle.none THEN nf_vol ELSE nb_restart_cycle.n   \* lines 74-75
    IN
    [pc |-> "start",
     vol_gen |-> [(IF with_patch_size
                   THEN vol(nf_vol, shape, batch_size, cycle, nb_input_feats,
                            yield_incomplete_final_batch)
                   ELSE vol_no_patch_size(nf_vol, shape, batch_size, cycle, nb_input_feats,
                                          yield_incomplete_final_batch))
                    EXCEPT !.volfiles = volfiles],
     seg_gen |-> ext_data(nf_seg, shape[0], IF with_patch_size THEN Size(1) ELSE None, 1,
                          batch_size, nb_restart_cycle, yield_incomplete_final_batch,
                          Files(vol_files)),
     input_vol |-> <<>>,
     output_vol |-> <<>>]

\* Lines 762-768: one turn of the loop, given what next(vol_gen) and
\* next(seg_gen) leave behind; seg_gen is not pulled when vol_gen raised.
VolExtYield(s, vg, sg) ==
    IF vg.pc # "yield"
    THEN [s EXCEPT !.vol_gen = vg, !.pc = "error"]
    ELSE IF sg.pc # "yield"
    THEN [s EXCEPT !.vol_gen = vg, !.seg_gen = sg, !.pc = sg.pc]
    ELSE [s EXCEPT !.vol_gen = vg, !.seg_gen = sg, !.pc = "yield",
                   !.input_vol = vg.vol_data_batch,
                   !.output_vol = sg.ext_data_batch]

\* Lines 740-768: next(gen) on a vol_ext_data() generator: one batch from each
\* stream.
VolExtNext(s) ==
    IF s.pc \notin {"start", "yield"} THEN s
    ELSE CHOOSE r \in {VolExtYield(s, vg, sg) :
                          vg \in {VolNext(s.vol_gen)}, sg \in {ExtNext(s.seg_gen)}} : TRUE

\* ------------------------------------------- a consumer of vol_ext_data()
\* The cycle lengths given: None, or a number of files.
CycleArgs == {None} \cup {Size(l) : l \in 1..MaxFiles}

InitExt ==
    /\ \E nf_vol \in 1..MaxFiles, nf_seg \in 1..MaxFiles, B \in 1..MaxBatch,
          L \in CycleArgs, F \in 1..MaxFeats, y \in BOOLEAN, ps \in BOOLEAN :
          \E shape \in [0..(nf_vol - 1) -> 1..MaxGrid] :
             egen = vol_ext_data(nf_vol, shape, ps, nf_seg, B, L, F, y)
    /\ eout = <<>>
    /\ pgen = Off /\ pout = <<>>
    /\ vgen = Off /\ vout = <<>>
    /\ cgen = Off /\ cout = <<>>
    /\ sgen = Off /\ sout = <<>>
    /\ rel = Off
    /\ call = Off /\ lst = Off
    /\ igen = Off /\ iout = <<>>
    /\ mgen = Off /\ mout = Off
    /\ rgen = Off /\ rout = Off

\* next(egen)
ExtPull ==
    /\ egen.pc \in {"start", "yield"}
    /\ Len(eout) < MaxPulls
    /\ egen' = VolExtNext(egen)
    /\ eout' = IF egen'.pc = "yield"
               THEN Append(eout, [input |-> egen'.input_vol, target |-> egen'.output_vol])
               ELSE eout
    /\ UNCHANGED <<pgen, pout, vgen, vout, cgen, cout, sgen, sout, rel, call, lst, igen, iout,
                 mgen, mout, rgen, rout>>

NextExt == ExtPull

SpecExt == InitExt /\ [][NextExt]_vars

\* ------------------------------------------- properties of vol_ext_data()
\* The two streams are set up alike: as many records as volumes, one feature
\* per sample, every volume cut into as many patches as the first.
LockStepSetup ==
    /\ egen.vol_gen.nb_files = egen.seg_gen.nb_files
    /\ egen.vol_gen.nb_feats = 1
    /\ \A f \in 0..(egen.vol_gen.nb_files - 1) :
          egen.vol_gen.npatch[f] =
             IF egen.vol_gen.arg_patch_size.none THEN 1 ELSE egen.vol_gen.npatch[0]

\* The file the sample at position j of a batch of vol() was cut from.
FileOfSample(batch, j) == batch[j][1][1]

\* C29: ext_data() and vol() stay in lock-step: with the same batch_size,
\* nb_restart_cycle, number of files and yield_incomplete_final_batch, with
\* nb_feats = 1 and every volume giving as many patches as the first, the k-th
\* batch of ext_data() has the size of the k-th batch of vol() and covers the
\* same file indices, position by position, for every k; neither stream ends
\* while the other goes on.
C29_ExtDataLockStep ==
    (egen.pc # "off" /\ LockStepSetup) =>
       /\ \A k \in 1..Len(eout) :
             /\ Len(eout[k].target) = Len(eout[k].input)
             /\ \A j \in 1..Len(eout[k].input) :
                   eout[k].target[j] = FileOfSample(eout[k].input, j)
       /\ egen.seg_gen.loaded = SubSeq(egen.vol_gen.loaded, 1, Len(egen.seg_gen.loaded))
       /\ egen.seg_gen.pc # "hang"
       /\ egen.vol_gen.pc = "yield" => egen.seg_gen.pc = "yield"

\* A pair of batches that runs over two files of several patches each, in a
\* stream that also gave a pair of another size.
C29_Witness ==
    /\ egen.pc = "yield" /\ LockStepSetup /\ Len(eout) >= 2
    /\ egen.vol_gen.npatch[0] >= 2
    /\ LET b == eout[Len(eout)] IN
       /\ Len(b.target) >= 3
       /\ b.target[1] # b.target[Len(b.target)]
       /\ \E k \in 1..Len(eout) : Len(eout[k].target) # Len(b.target)

\* ------------------------------------------------------------- img_seg()
\* The generator object returned by imggen(path, ext, nb_restart_cycle) over a
\* directory of nb_files images; nb_restart_cycle is a Size or None.
imggen(nb_files, nb_restart_cycle) ==
    [pc |-> "start",
     nb_files |-> nb_files,
     nb_restart_cycle |-> nb_restart_cycle,
     idx |-> -1,
     exc |-> "none"]

\* Lines 943-946: one turn of `while 1`: the next index and the image read at it.
ImgWhile(g) ==
    LET idx == np_mod(g.idx + 1, g.nb_restart_cycle.n) IN
    IF ~ValidIndex(idx, g.nb_files)
    THEN [g EXCEPT !.idx = idx, !.pc = "error", !.exc = "IndexError"]
    ELSE [g EXCEPT !.idx = idx, !.pc = "yield"]

\* Lines 938-946: next(gen) on an imggen() generator; the first next() runs
\* the code before the loop: with no cycle length given, the number of files.
ImgNext(g) ==
    CASE g.pc = "start" ->
            ImgWhile(IF g.nb_restart_cycle.none
                     THEN [g EXCEPT !.nb_restart_cycle = Size(g.nb_files)] ELSE g)
      [] g.pc = "yield" -> ImgWhile(g)
      [] OTHER          -> g

\* The generator object returned by img_seg(volpath, segpath, ...) over nf_img
\* images and nf_seg segmentations: the cycle length is given to the image
\* stream; the segmentation stream is made without one.
img_seg(nf_img, nf_seg, batch_size, nb_restart_cycle) ==
    [pc |-> "start",
     img_gen |-> imggen(nf_img, nb_restart_cycle),
     seg_gen |-> imggen(nf_seg, None),
     batch_size |-> batch_size,
     input_vol |-> <<>>,
     output_vol |-> <<>>,
     exc |-> "none"]

RECURSIVE ImgTake(_, _, _)

\* [next(gen) for i in range(n)]: the generator left behind and the indices
\* of the files read, in order; the comprehension ends where next() raises.
ImgTake(g, n, read) ==
    IF n <= 0 THEN [gen |-> g, read |-> read]
    ELSE LET g1 == ImgNext(g) IN
         IF g1.pc # "yield" THEN [gen |-> g1, read |-> read]
         ELSE ImgTake(g1, n - 1, Append(read, g1.idx))

\* Lines 952-961: next(gen) on an img_seg() generator: batch_size images, then
\* batch_size segmentations. np.vstack of an empty list raises ValueError.
ImgSegNext(s) ==
    IF s.pc \notin {"start", "yield"} THEN s
    ELSE LET imgs == ImgTake(s.img_gen, s.batch_size, <<>>) IN
         IF imgs.gen.pc = "error"
         THEN [s EXCEPT !.img_gen = imgs.gen, !.pc = "error", !.exc = imgs.gen.exc]
         ELSE IF imgs.read = <<>>
         THEN [s EXCEPT !.pc = "error", !.exc = "ValueError"]
         ELSE LET segs == ImgTake(s.seg_gen, s.batch_size, <<>>) IN
              IF segs.gen.pc = "error"
              THEN [s EXCEPT !.img_gen = imgs.gen, !.seg_gen = segs.gen,
                             !.pc = "error", !.exc = segs.gen.exc]
              ELSE [s EXCEPT !.img_gen = imgs.gen, !.seg_gen = segs.gen, !.pc = "yield",
                             !.input_vol = imgs.read, !.output_vol = segs.read]

\* ------------------------------------------------ a consumer of img_seg()
InitImg ==
    /\ \E nf_img \in 0..MaxFiles, nf_seg \in 0..MaxFiles, B \in 0..MaxBatch,
          L \in {None} \cup {Size(l) : l \in 1..(MaxFiles + 1)} :
          igen = img_seg(nf_img, nf_seg, B, L)
    /\ iout = <<>>
    /\ pgen = Off /\ pout = <<>>
    /\ vgen = Off /\ vout = <<>>
    /\ cgen = Off /\ cout = <<>>
    /\ sgen = Off /\ sout = <<>>
    /\ rel = Off
    /\ call = Off /\ lst = Off
    /\ egen = Off /\ eout = <<>>
    /\ mgen = Off /\ mout = Off
    /\ rgen = Off /\ rout = Off

\* next(igen)
ImgPull ==
    /\ igen.pc \in {"start", "yield"}
    /\ Len(iout) < MaxPulls
    /\ igen' = ImgSegNext(igen)
    /\ iout' = IF igen'.pc = "yield"
               THEN Append(iout, [input |-> igen'.input_vol, target |-> igen'.output_vol])
               ELSE iout
    /\ UNCHANGED <<pgen, pout, vgen, vout, cgen, cout, sgen, sout, rel, call, lst, egen, eout,
                 mgen, mout, rgen, rout>>

NextImg == ImgPull

SpecImg == InitImg /\ [][NextImg]_vars

\* ------------------------------------------------ properties of img_seg()
\* C30: in every pair yielded by img_seg() the image and the segmentation at
\* the same position of the batch were read at the same file index, whatever
\* nb_restart_cycle is and however many pairs were pulled (here already for
\* two directories of as many files).
C30_ImgSegSameIndex ==
    (igen.pc # "off" /\ igen.img_gen.nb_files = igen.seg_gen.nb_files) =>
       \A k \in 1..Len(iout) :
          /\ Len(iout[k].input) = Len(iout[k].target)
          /\ \A j \in 1..Len(iout[k].input) : iout[k].input[j] = iout[k].target[j]

\* ------------------------------------------------ max_patch_in_vol_cat()
\* max_resp, a float: minus infinity (-np.infty), or a response of the model.
NegInfty == [neg_infty |-> TRUE, n |-> 0]

\* res > max_resp
Greater(res, max_resp) == max_resp.neg_infty \/ res > max_resp.n

\* A local variable that holds an array: not assigned yet, or bound to a value.
Unbound == [bound |-> FALSE, value |-> <<>>]
Bound(value) == [bound |-> TRUE, value |-> value]

\* What next(vol_cat_gen) gives: a pair (volume, label z) of vol_cat(), whose
\* volume has as many patches as resp has entries, resp[k] being the response
\* np.squeeze(tst_model.predict(ptc))[1] of the model on its k-th patch; or
\* an exception raised while the volume was loaded.
Samples ==
    {[failed |-> FALSE, z |-> z, resp |-> resp] :
        z \in 0..1, resp \in UNION {[1..N -> 0..MaxResp] : N \in 0..MaxGrid}}
    \cup {[failed |-> TRUE, z |-> 0, resp |-> <<>>]}

\* The generator object returned by max_patch_in_vol_cat(...): no code has
\* run yet.
max_patch_in_vol_cat ==
    [pc |-> "start",
     sample |-> [failed |-> FALSE, z |-> 0, resp |-> <<>>],   \* unbound until the first volume
     pulled |-> 0,                \* the volumes taken from vol_cat_gen so far
     patch_gen |-> Off,
     max_resp |-> NegInfty,
     max_idx |-> None,            \* np.nan, or an index
     max_out |-> None,
     max_ptc |-> Unbound,
     idx |-> 0,
     stderr |-> <<>>,
     exc |-> "none"]

RECURSIVE MaxPatchFor(_)

\* Lines 910-919: the loop over the patches of the volume, and the yield
\* after it. max_resp is assigned at line 907 only.
MaxPatchFor(m) ==
    LET pg == PatchNext(m.patch_gen) IN
    IF pg.pc = "error"
    THEN [m EXCEPT !.patch_gen = pg, !.pc = "error", !.exc = pg.exc]   \* patch() raised: propagates
    ELSE IF pg.pc = "done"
    THEN IF ~m.max_ptc.bound
         THEN [m EXCEPT !.patch_gen = pg, !.pc = "error", !.exc = "UnboundLocalError"]
         ELSE [m EXCEPT !.patch_gen = pg, !.pc = "yield"]             \* yield (max_ptc, max_out)
    ELSE LET ptc == pg.patch_data_batch
             res == m.sample.resp[ptc[1][1][2]]
             m1 == IF Greater(res, m.max_resp)
                   THEN [m EXCEPT !.max_ptc = Bound(ptc), !.max_out = Size(m.sample.z),
                                  !.max_idx = Size(m.idx)]
                   ELSE m
         IN  Eval(MaxPatchFor, [m1 EXCEPT !.patch_gen = pg, !.idx = @ + 1])

\* Lines 896-919: next(gen) on a max_patch_in_vol_cat() generator, given what
\* next(vol_cat_gen) does. A generator that raised is finished: every later
\* next() on it raises StopIteration, which the bare except of line 900 takes
\* for a failed load as well, so that the loop of line 896 never ends.
MaxPatchNext(m, sample) ==
    IF m.pc \notin {"start", "yield"} THEN m
    ELSE IF sample.failed
    THEN [m EXCEPT !.pc = "hang", !.stderr = Append(@, "Failed loading file. Skipping")]
    ELSE MaxPatchFor([m EXCEPT !.sample = sample, !.pulled = @ + 1,
                               !.patch_gen = patch([id |-> m.pulled, N |-> Len(sample.resp)],
                                                   1, FALSE, FALSE),
                               !.max_resp = NegInfty, !.max_idx = None, !.max_out = None,
                               !.idx = 0])

\* --------------------------------- a consumer of max_patch_in_vol_cat()
InitMaxPatch ==
    /\ mgen = max_patch_in_vol_cat
    /\ mout = [ret |-> "none"]
    /\ pgen = Off /\ pout = <<>>
    /\ vgen = Off /\ vout = <<>>
    /\ cgen = Off /\ cout = <<>>
    /\ sgen = Off /\ sout = <<>>
    /\ rel = Off
    /\ call = Off /\ lst = Off
    /\ egen = Off /\ eout = <<>>
    /\ igen = Off /\ iout = <<>>
    /\ rgen = Off /\ rout = Off

\* next(mgen)
MaxPatchPull ==
    /\ mgen.pc \in {"start", "yield"}
    /\ mgen.pulled < MaxPulls
    /\ \E sample \in Samples : mgen' = MaxPatchNext(mgen, sample)
    /\ mout' = IF mgen'.pc = "yield"
               THEN [ret |-> "pair", max_ptc |-> mgen'.max_ptc.value, max_out |-> mgen'.max_out]
               ELSE [ret |-> mgen'.pc]
    /\ UNCHANGED <<pgen, pout, vgen, vout, cgen, cout, sgen, sout, rel, call, lst, egen, eout,
                   igen, iout, rgen, rout>>

NextMaxPatch == MaxPatchPull

SpecMaxPatch == InitMaxPatch /\ [][NextMaxPatch]_vars

\* ------------------------------- properties of max_patch_in_vol_cat()
\* The place in the grid of the patch a pull returned.
SelectedPatch == mout.max_ptc[1][1][2]

\* C31: the patch yielded for a volume is one whose response is the highest
\* among the patches of that volume: no patch of the volume has a higher
\* response than the patch yielded, so that a patch with a lower response
\* than an earlier one has not replaced it.
C31_YieldsHighestResponse ==
    mgen.pc = "yield" =>
       \A k \in 1..Len(mgen.sample.resp) :
          mgen.sample.resp[k] <= mgen.sample.resp[SelectedPatch]

\* ------------------------------------------------------- vol_sr_slices()
\* list(range(start, stop, step)) for a step of 1 or more, as a sequence.
PyRange(start, stop, step) ==
    LET n == IF stop > start THEN (stop - start + step - 1) \div step ELSE 0
    IN  [i \in 1..n |-> start + (i - 1) * step]

\* The number of slices of vol_data[:, :, idx:idx+nb_slices_in_subvol] for a
\* volume of nb_slices slices and idx >= 0: a slice that runs over the end of
\* the axis is cut short, without an error.
SliceLen(nb_slices, idx, nb_slices_in_subvol) ==
    LET lo == IF idx < nb_slices THEN idx ELSE nb_slices
        hi == IF idx + nb_slices_in_subvol < nb_slices
              THEN idx + nb_slices_in_subvol ELSE nb_slices
    IN  IF hi > lo THEN hi - lo ELSE 0

\* What np.random gives when it is not asked.
NoDraw == [init_slice |-> 0, choice |-> <<>>]

\* The generator object returned by vol_sr_slices(volpath, ...) over a
\* directory of nb_files volumes, volume f having depth[f] slices: no code has
\* run yet. nb_restart_cycle is a Size or None.
vol_sr_slices(nb_files, depth, nb_input_slices, nb_slice_spacing, batch_size, nb_restart_cycle, rand_slices, simulate_whole_sparse_vol) ==
    [pc |-> "start",
     nb_files |-> nb_files,
     depth |-> depth,
     nb_input_slices |-> nb_input_slices,
     nb_slice_spacing |-> nb_slice_spacing,
     batch_size |-> batch_size,
     nb_restart_cycle |-> nb_restart_cycle,
     rand_slices |-> rand_slices,
     simulate_whole_sparse_vol |-> simulate_whole_sparse_vol,
     nb_slices_in_subvol |-> 0,   \* unbound until the first next()
     fileidx |-> -1,
     nb_slices |-> 0,
     nb_start_slices |-> 0,
     all_start_indices |-> <<>>,
     batch_start |-> 0,           \* the next value of the loop variable batch_start
     start_indices |-> <<>>,
     cuts |-> <<>>,               \* the sub-volumes cut by the last indices_to_batch()
     idle |-> {},                 \* the file indices taken since the last batch
     np_random |-> NoDraw,        \* what np.random gives in the pull under way
     exc |-> "none"]

\* Line 517: nb_slices_in_subvol = (nb_input_slices - 1) * (nb_slice_spacing + 1) + 1
SlicesInSubvol(nb_input_slices, nb_slice_spacing) ==
    (nb_input_slices - 1) * (nb_slice_spacing + 1) + 1

\* Line 536: nb_start_slices = nb_slices - nb_slices_in_subvol + 1
StartSlices(nb_slices, nb_slices_in_subvol) == nb_slices - nb_slices_in_subvol + 1

\* Lines 494-505: indices_to_batch(vol_data, start_indices, ...), and the yield
\* of the batch. Each start index cuts vol_data[:, :, idx:idx+nb_slices_in_subvol];
\* np.vstack raises ValueError on a sub-volume of another length than the first.
indices_to_batch(g, start_indices) ==
    LET cut(j) == [idx |-> start_indices[j],
                   len |-> SliceLen(g.nb_slices, start_indices[j], g.nb_slices_in_subvol)]
        bad == {j \in 2..Len(start_indices) : cut(j).len # cut(1).len}
        g1 == [g EXCEPT !.start_indices = start_indices, !.idle = {}]
    IN  IF start_indices = <<>>
        THEN [g1 EXCEPT !.cuts = <<>>, !.pc = "error", !.exc = "IndexError"]
        ELSE IF bad # {}
        THEN LET j == CHOOSE j \in bad : \A i \in bad : j <= i IN
             [g1 EXCEPT !.cuts = [i \in 1..j |-> cut(i)],
                        !.pc = "error", !.exc = "ValueError"]
        ELSE IF cut(1).len = 0
        THEN [g1 EXCEPT !.cuts = [i \in 1..Len(start_indices) |-> cut(i)],
                        !.pc = "error", !.exc = "ValueError"]           \* np.reshape of nothing
        ELSE [g1 EXCEPT !.cuts = [i \in 1..Len(start_indices) |-> cut(i)], !.pc = "yield"]

RECURSIVE SrWhile(_)

\* Lines 546-549: the loop over the batches of a simulated sparse volume, from
\* its next turn on.
SrSparseFor(g) ==
    IF g.batch_start < Len(g.all_start_indices)
    THEN IF g.batch_start + g.batch_size > Len(g.all_start_indices)
         THEN [g EXCEPT !.pc = "error", !.exc = "IndexError"]     \* all_start_indices[s]
         ELSE indices_to_batch(
                 [g EXCEPT !.batch_start = @ + g.batch_size * (g.nb_input_slices - 1)],
                 SubSeq(g.all_start_indices, g.batch_start + 1, g.batch_start + g.batch_size))
    ELSE SrWhile(g)

\* Lines 560-563: the loop over the batches taken slice by slice, from its
\* next turn on.
SrSeqFor(g) ==
    IF g.batch_start < g.nb_start_slices
    THEN indices_to_batch([g EXCEPT !.batch_start = @ + g.batch_size],
                          PyRange(g.batch_start, g.batch_start + g.batch_size, 1))
    ELSE SrWhile(g)

\* Lines 521-563: one turn of `while 1` up to the first batch of the file: the
\* next file index, the load of that file, and the start indices of its mode.
\* A file that gives no batch is passed over; once a file index comes back
\* with no batch in between, the loop goes on for ever without a yield.
SrWhile(g) ==
    LET fileidx == np_mod(g.fileidx + 1, g.nb_restart_cycle.n) IN
    IF ~ValidIndex(fileidx, g.nb_files)
    THEN [g EXCEPT !.fileidx = fileidx, !.pc = "error", !.exc = "IndexError"]
    ELSE IF fileidx \in g.idle
    THEN [g EXCEPT !.pc = "hang"]
    ELSE
    LET nb_slices == g.depth[FileAt(fileidx, g.nb_files)]
        nb_start_slices == StartSlices(nb_slices, g.nb_slices_in_subvol)
        g1 == [g EXCEPT !.fileidx = fileidx, !.nb_slices = nb_slices,
                        !.nb_start_slices = nb_start_slices, !.idle = @ \cup {fileidx}]
    IN  IF g.simulate_whole_sparse_vol
        THEN IF g.rand_slices /\ ~(0 < nb_start_slices - 1)
             THEN [g1 EXCEPT !.pc = "error", !.exc = "ValueError"]    \* randint: low >= high
             ELSE IF g.batch_size * (g.nb_input_slices - 1) = 0
             THEN [g1 EXCEPT !.pc = "error", !.exc = "ValueError"]    \* range() step of zero
             ELSE LET init_slice == IF g.rand_slices THEN g.np_random.init_slice ELSE 0 IN
                  SrSparseFor([g1 EXCEPT !.batch_start = 0,
                                         !.all_start_indices =
                                            PyRange(init_slice, nb_start_slices,
                                                    g.nb_slice_spacing + 1)])
        ELSE IF g.rand_slices
        THEN IF nb_start_slices <= 0 \/ g.batch_size > nb_start_slices
             THEN [g1 EXCEPT !.pc = "error", !.exc = "ValueError"]    \* np.random.choice
             ELSE indices_to_batch(g1, g.np_random.choice)
        ELSE SrSeqFor([g1 EXCEPT !.batch_start = 0])

\* Lines 508-520: the code before the loop, run by the first next().
SrStart(g) ==
    SrWhile([g EXCEPT !.nb_restart_cycle =
                         IF g.nb_restart_cycle.none THEN Size(g.nb_files) ELSE @,
                      !.nb_slices_in_subvol =
                         SlicesInSubvol(g.nb_input_slices, g.nb_slice_spacing)])

\* next(gen) on a vol_sr_slices() generator, resumed after the yield of its mode.
SrNext(g) ==
    CASE g.pc = "start" -> SrStart(g)
      [] g.pc = "yield" /\ g.simulate_whole_sparse_vol -> SrSparseFor(g)
      [] g.pc = "yield" /\ ~g.simulate_whole_sparse_vol /\ g.rand_slices -> SrWhile(g)
      [] g.pc = "yield" /\ ~g.simulate_whole_sparse_vol /\ ~g.rand_slices -> SrSeqFor(g)
      [] OTHER -> g

\* The sequences of n different values of 0 .. k-1.
Injections(n, k) ==
    {c \in [1..n -> 0..(k - 1)] : \A i, j \in 1..n : i # j => c[i] # c[j]}

\* What np.random may give in the next pull on g: for the file that comes
\* next, np.random.randint(0, high=nb_start_slices-1) is any of 0 ..
\* nb_start_slices-2, and np.random.choice(range(nb_start_slices),
\* size=batch_size, replace=False) any batch_size different start slices.
Draws(g) ==
    LET cycle == IF g.nb_restart_cycle.none THEN g.nb_files ELSE g.nb_restart_cycle.n
        fileidx == np_mod(g.fileidx + 1, cycle)
        nb_start_slices ==
           IF ValidIndex(fileidx, g.nb_files)
           THEN StartSlices(g.depth[FileAt(fileidx, g.nb_files)],
                            SlicesInSubvol(g.nb_input_slices, g.nb_slice_spacing))
           ELSE 0
    IN  IF g.simulate_whole_sparse_vol /\ g.rand_slices
        THEN {[init_slice |-> i, choice |-> <<>>] : i \in 0..(nb_start_slices - 2)} \cup {NoDraw}
        ELSE IF ~g.simulate_whole_sparse_vol /\ g.rand_slices /\ g.batch_size <= nb_start_slices
        THEN {[init_slice |-> 0, choice |-> c] : c \in Injections(g.batch_size, nb_start_slices)}
        ELSE {NoDraw}

\* ---------------------------------------- a consumer of vol_sr_slices()
InitSlices ==
    /\ \E nf \in 1..MaxFiles, n \in 1..MaxSlices, sp \in 0..MaxSpacing, B \in 1..MaxBatch,
          r \in BOOLEAN, w \in BOOLEAN :
          \E depth \in [0..(nf - 1) -> 1..MaxDepth] :
             rgen = vol_sr_slices(nf, depth, n, sp, B, None, r, w)
    /\ rout = [ret |-> "none"]
    /\ pgen = Off /\ pout = <<>>
    /\ vgen = Off /\ vout = <<>>
    /\ cgen = Off /\ cout = <<>>
    /\ sgen = Off /\ sout = <<>>
    /\ rel = Off
    /\ call = Off /\ lst = Off
    /\ egen = Off /\ eout = <<>>
    /\ igen = Off /\ iout = <<>>
    /\ mgen = Off /\ mout = Off

\* next(rgen)
SlicesPull ==
    /\ rgen.pc \in {"start", "yield"}
    /\ \E draw \in Draws(rgen) :
          rgen' = [SrNext([rgen EXCEPT !.np_random = draw]) EXCEPT !.np_random = NoDraw]
    /\ rout' = [ret |-> rgen'.pc]
    /\ UNCHANGED <<pgen, pout, vgen, vout, cgen, cout, sgen, sout, rel, call, lst, egen, eout,
                   igen, iout, mgen, mout>>

NextSlices == SlicesPull

SpecSlices == InitSlices /\ [][NextSlices]_vars

\* ---------------------------------------- properties of vol_sr_slices()
\* C32: every start index at which a sub-volume is cut satisfies
\* 0 <= idx < nb_start_slices, so that the sub-volume has all its
\* nb_slices_in_subvol slices, in the three modes, for every batch size and
\* volume depth; and every batch yielded holds batch_size sub-volumes.
C32_StartIndicesInside ==
    rgen.pc # "off" =>
       /\ \A j \in 1..Len(rgen.cuts) :
             /\ 0 <= rgen.cuts[j].idx /\ rgen.cuts[j].idx < rgen.nb_start_slices
             /\ rgen.cuts[j].len = rgen.nb_slices_in_subvol
       /\ rgen.pc = "yield" => Len(rgen.cuts) = rgen.batch_size

\* ------------------------------------------------------ _get_file_list()
MaxNames == 3     \* files of a directory that is listed
MaxCalls == 2     \* calls of _get_file_list

\* numpy's global random state, as a linear congruential generator over
\* 0 .. RngMod-1: np.random.seed(s) sets the state from the seed alone, every
\* draw steps it.
RngMod == 8

\* Mutant: the state is left as it is.
np_random_seedKeeps(rand_seed_vol, rng) == rng

\* Line 972: np.random.seed(rand_seed_vol)
np_random_seed(rand_seed_vol, rng) == rand_seed_vol % RngMod

\* One draw: the next state, which is also the number drawn.
RngNext(rng) == (5 * rng + 3) % RngMod

\* x with the entries at positions i and j exchanged
Swap(x, i, j) == [x EXCEPT ![i] = x[j], ![j] = x[i]]

RECURSIVE Shuffle(_, _, _)
\* Line 973: np.random.permutation: for i = n-1 down to 1, entry i is
\* exchanged with entry j drawn from 0..i (positions counted from 0). The
\* draws depend on the state and on the length, not on the entries.
Shuffle(x, i, rng) ==
    IF i < 1 THEN [files |-> x, rng |-> rng]
    ELSE LET r == RngNext(rng)
             j == r % (i + 1)
         IN  Shuffle(Swap(x, i + 1, j + 1), i - 1, r)

RECURSIVE InsertSorted(_, _)
InsertSorted(f, s) ==
    IF s = <<>> THEN <<f>>
    ELSE IF f[1] <= Head(s)[1] THEN <<f>> \o s
    ELSE <<Head(s)>> \o InsertSorted(f, Tail(s))

RECURSIVE sorted(_)
\* sorted(names): by name; the names of a directory differ in their subject.
sorted(s) == IF s = <<>> THEN <<>> ELSE InsertSorted(Head(s), sorted(Tail(s)))

\* f.endswith(ext); every string ends with the empty string.
endswith(f, ext) == ext = "" \/ f[3] = ext

\* Mutant: the listing is taken in the order of os.listdir.
get_sortedUnsorted(listdir, ext) == SelectSeq(listdir, LAMBDA f : endswith(f, ext))

\* Line 970: [f for f in sorted(os.listdir(volpath)) if ext is None or f.endswith(ext)]
get_sorted(listdir, ext) == SelectSeq(sorted(listdir), LAMBDA f : endswith(f, ext))

\* Lines 966-974: _get_file_list(volpath, ext, rand_seed_vol), given what
\* os.listdir(volpath) returns and the random state: the list, and the random
\* state left behind.
get_file_list(listdir, ext, rand_seed_vol, rng) ==
    LET files == get_sorted(listdir, ext) IN
    IF rand_seed_vol.none THEN [files |-> files, rng |-> rng]
    ELSE Shuffle(files, Len(files) - 1, np_random_seed(rand_seed_vol.n, rng))

\* os.listdir(path): the names of the directory, in arbitrary order.
os_listdir(dir) ==
    {s \in [1..Cardinality(dir) -> dir] : \A i, j \in 1..Cardinality(dir) : i # j => s[i] # s[j]}

\* A directory: n files of the subjects step, 2*step, ... (step >= 2) with the
\* given subname, and one file of another kind, sorted second, when other is
\* set.
Directory(n, step, subname, other) ==
    {<<step * k, subname, ".npz">> : k \in 1..n}
       \cup (IF other THEN {<<step + 1, subname, ".png">>} ELSE {})

\* ---------------------------------------- the callers of _get_file_list()
\* Two directories, the extension asked for, and numpy's random state.
InitList ==
    /\ \E na \in 0..MaxNames, nb \in 0..MaxNames, oa \in BOOLEAN, ext \in {".npz", ""} :
          /\ oa => na < MaxNames
          /\ lst = [pc |-> "on",
                    dirs |-> <<Directory(na, 2, "norm", oa), Directory(nb, 3, "aseg", FALSE)>>,
                    ext |-> ext, rng |-> 1, calls |-> <<>>]
    /\ pgen = Off /\ pout = <<>>
    /\ vgen = Off /\ vout = <<>>
    /\ cgen = Off /\ cout = <<>>
    /\ sgen = Off /\ sout = <<>>
    /\ rel = Off /\ call = Off
    /\ egen = Off /\ eout = <<>>
    /\ igen = Off /\ iout = <<>>
    /\ mgen = Off /\ mout = Off
    /\ rgen = Off /\ rout = Off

\* _get_file_list(path d, ext, rand_seed_vol): a generator is being opened.
ListFiles(d, rand_seed_vol) ==
    /\ lst.pc = "on" /\ Len(lst.calls) < MaxCalls
    /\ \E listdir \in os_listdir(lst.dirs[d]) :
          LET r == get_file_list(listdir, lst.ext, rand_seed_vol, lst.rng) IN
          lst' = [lst EXCEPT !.rng = r.rng,
                             !.calls = Append(@, [dir |-> d, seed |-> rand_seed_vol,
                                                  files |-> r.files])]
    /\ UNCHANGED <<pgen, pout, vgen, vout, cgen, cout, sgen, sout, rel, call, egen, eout, igen, iout,
                 mgen, mout, rgen, rout>>

\* Lines 365, 542, 554: other code draws from numpy's random state.
RandomDraw ==
    /\ lst.pc = "on"
    /\ lst' = [lst EXCEPT !.rng = RngNext(@)]
    /\ UNCHANGED <<pgen, pout, vgen, vout, cgen, cout, sgen, sout, rel, call, egen, eout, igen, iout,
                 mgen, mout, rgen, rout>>

NextList ==
    \/ \E d \in 1..2 : \E seed \in {None, Size(0), Size(1)} : ListFiles(d, seed)
    \/ RandomDraw

SpecList == InitList /\ [][NextList]_vars

\* ------------------------------------------ properties of _get_file_list()
\* The files of directory d that the extension asked for selects.
Selected(d) == {f \in lst.dirs[d] : endswith(f, lst.ext)}

\* The sorted rank, from 1, of file f among the selected files of directory d.
Rank(f, d) == Cardinality({g \in Selected(d) : g[1] <= f[1]})

\* C22: every list returned holds each selected file of its directory once;
\* without a seed it is in sorted order; and two lists of the same length
\* returned under the same seed hold, at every position, files of the same
\* sorted rank, whatever was drawn from the random state in between and
\* whatever order the directories were read in.
C22_SeededOrderAgrees ==
    lst.pc # "off" =>
       /\ \A k \in 1..Len(lst.calls) :
             LET c == lst.calls[k] IN
             /\ Len(c.files) = Cardinality(Selected(c.dir))
             /\ {c.files[i] : i \in 1..Len(c.files)} = Selected(c.dir)
             /\ c.seed.none => \A i \in 1..Len(c.files) : Rank(c.files[i], c.dir) = i
       /\ \A j, k \in 1..Len(lst.calls) :
             LET a == lst.calls[j]
                 b == lst.calls[k]
             IN  (~a.seed.none /\ a.seed = b.seed /\ Len(a.files) = Len(b.files)) =>
                    \A i \in 1..Len(a.files) : Rank(a.files[i], a.dir) = Rank(b.files[i], b.dir)

\* The two directories were listed under the same seed; the lists are not in
\* sorted order and agree in rank.
C22_Witness ==
    /\ lst.pc = "on" /\ Len(lst.calls) = 2
    /\ lst.calls[1].dir = 1 /\ lst.calls[2].dir = 2
    /\ ~lst.calls[1].seed.none /\ lst.calls[1].seed = lst.calls[2].seed
    /\ Len(lst.calls[1].files) = 3 /\ Len(lst.calls[2].files) = 3
    /\ Rank(lst.calls[1].files[1], 1) # 1
    /\ \A i \in 1..3 : Rank(lst.calls[1].files[i], 1) = Rank(lst.calls[2].files[i], 2)

\* -------------------------------------------------------- the patch grid
MaxRank == 2      \* axes of a volume whose grid is computed
MaxDim == 3       \* largest length of an axis, and of a patch along an axis

RECURSIVE AxisOffsets(_, _, _, _)
\* The offsets of a patch along one axis, from offset o on: o, o + stride, ...
\* up to the last offset at which the patch ends inside the volume.
AxisOffsets(vol_size, patch_size, patch_stride, o) ==
    IF o + patch_size > vol_size THEN <<>>
    ELSE <<o>> \o AxisOffsets(vol_size, patch_size, patch_stride, o + patch_stride)

RECURSIVE PatchGrid(_, _, _)
\* The grid of patch offsets of a volume: the Cartesian product of the offsets
\* of each axis, in row-major order (the last axis runs fastest).
PatchGrid(vol_shape, patch_shape, stride) ==
    IF vol_shape = <<>> THEN << <<>> >>
    ELSE LET first == AxisOffsets(Head(vol_shape), Head(patch_shape), Head(stride), 0)
             rest == PatchGrid(Tail(vol_shape), Tail(patch_shape), Tail(stride))
         IN  Flatten([i \in 1..Len(first) |-> [j \in 1..Len(rest) |-> <<first[i]>> \o rest[j]]])

\* pl.gridsize(vol_shape, patch_size, patch_stride): the number of offsets of
\* each axis.
gridsizes(vol_shape, patch_size, patch_stride) ==
    [i \in 1..Len(vol_shape) |-> gridsize(vol_shape[i], patch_size[i], patch_stride[i])]

RECURSIVE np_prod(_)
\* np.prod of a list of numbers
np_prod(x) == IF x = <<>> THEN 1 ELSE Head(x) * np_prod(Tail(x))

\* A patch size: None, or one length per axis.
NoShape == [none |-> TRUE, shape |-> <<>>]
Shape(shape) == [none |-> FALSE, shape |-> shape]

\* Mutant: the stride is left out of the count.
nb_patches_per_volNoStride(vol_shape, patch_size, patch_stride) ==
    IF patch_size.none THEN 1
    ELSE np_prod(gridsizes(vol_shape, patch_size.shape, [i \in 1..Len(vol_shape) |-> 1]))

\* Lines 71-73: the number of patches of a volume that vol() checks the cycle
\* length against.
nb_patches_per_vol(vol_shape, patch_size, patch_stride) ==
    IF patch_size.none THEN 1
    ELSE np_prod(gridsizes(vol_shape, patch_size.shape, patch_stride))

RECURSIVE PatchYields(_)
\* The number of batches a patch() generator yields from state g on.
PatchYields(g) ==
    LET g1 == PatchNext(g) IN
    IF g1.pc \in {"yield", "lastyield"} THEN 1 + PatchYields(g1) ELSE 0

\* Lines 119-131: the number of patches the patch stream of vol() produces for
\* a volume; a patch size of None becomes the shape of the volume, with
\* stride 1 on every axis.
patches_produced(vol_shape, patch_size, patch_stride) ==
    LET size == IF patch_size.none THEN vol_shape ELSE patch_size.shape
        stride == IF patch_size.none THEN [i \in 1..Len(vol_shape) |-> 1] ELSE patch_stride
        N == Len(PatchGrid(vol_shape, size, stride))
    IN  PatchYields(patch([id |-> 0, N |-> N], 1, FALSE, FALSE))

\* --------------------------------------------------- the volume loader
\* Lines 977-993: _load_medical_volume(filename, ext): the reader chosen by
\* the extension, or the error raised.
load_medical_volume(ext) ==
    IF ext = ".npz" THEN [raised |-> "none", vol_data |-> "np.load(filename)['vol_data']"]
    ELSE IF ext = "npy" THEN [raised |-> "none", vol_data |-> "np.load(filename)"]
    ELSE IF ext = ".mgz" \/ ext = ".nii" \/ ext = ".nii.gz"
    THEN [raised |-> "none", vol_data |-> "nib.load(filename).get_data()"]
    ELSE [raised |-> "ValueError: Unexpected extension", vol_data |-> "unbound"]

\* The extensions a caller may pass: those the loader is documented for, and
\* others.
Extensions ==
    {".npz", ".npy", ".nii", ".nii.gz", ".mgz", "npy", "npz", ".png", ".NPZ", ".gz", ""}

\* ------------------------------------------------- callers of the helpers
\* A call about to be made: the grid of a volume of one axis or more, under a
\* patch size (or None) and a stride; or the load of a file.
InitHelpers ==
    /\ \/ \E r \in 1..MaxRank :
             \E V \in [1..r -> 1..MaxDim], P \in [1..r -> 1..MaxDim], S \in [1..r -> 1..2] :
                call = [pc |-> "grid", vol_shape |-> V, patch_size |-> Shape(P), patch_stride |-> S]
       \/ \E r \in 1..MaxRank :
             \E V \in [1..r -> 1..MaxDim] :
                call = [pc |-> "grid", vol_shape |-> V, patch_size |-> NoShape,
                        patch_stride |-> [i \in 1..r |-> 1]]
       \/ \E ext \in Extensions : call = [pc |-> "load", ext |-> ext]
    /\ pgen = Off /\ pout = <<>>
    /\ vgen = Off /\ vout = <<>>
    /\ cgen = Off /\ cout = <<>>
    /\ sgen = Off /\ sout = <<>>
    /\ rel = Off /\ lst = Off
    /\ egen = Off /\ eout = <<>>
    /\ igen = Off /\ iout = <<>>
    /\ mgen = Off /\ mout = Off
    /\ rgen = Off /\ rout = Off

\* The grid of the volume, the count of lines 71-73 and the patches the patch
\* stream produces.
GridCall ==
    /\ call.pc = "grid"
    /\ call' = [pc |-> "grid done", vol_shape |-> call.vol_shape,
                patch_size |-> call.patch_size, patch_stride |-> call.patch_stride,
                grid |-> PatchGrid(call.vol_shape,
                                   IF call.patch_size.none THEN call.vol_shape
                                   ELSE call.patch_size.shape,
                                   call.patch_stride),
                nb_patches_per_vol |->
                    nb_patches_per_vol(call.vol_shape, call.patch_size, call.patch_stride),
                produced |-> patches_produced(call.vol_shape, call.patch_size, call.patch_stride)]
    /\ UNCHANGED <<pgen, pout, vgen, vout, cgen, cout, sgen, sout, rel, lst, egen, eout, igen, iout,
                 mgen, mout, rgen, rout>>

\* _load_medical_volume(filename, ext)
LoadCall ==
    /\ call.pc = "load"
    /\ call' = [pc |-> "load done", ext |-> call.ext, result |-> load_medical_volume(call.ext)]
    /\ UNCHANGED <<pgen, pout, vgen, vout, cgen, cout, sgen, sout, rel, lst, egen, eout, igen, iout,
                 mgen, mout, rgen, rout>>

NextHelpers == GridCall \/ LoadCall

SpecHelpers == InitHelpers /\ [][NextHelpers]_vars

\* ------------------------------------------------ properties of the helpers
RECURSIVE ProductOfCounts(_, _, _)
\* prod_i (floor((V_i - P_i) / S_i) + 1)
ProductOfCounts(V, P, S) ==
    IF V = <<>> THEN 1
    ELSE (((Head(V) - Head(P)) \div Head(S)) + 1) * ProductOfCounts(Tail(V), Tail(P), Tail(S))

\* C23: when the patch fits in the volume on every axis, the grid has exactly
\* prod_i (floor((V_i - P_i) / S_i) + 1) offsets, each within 0 .. V_i - P_i on
\* every axis, no two of them equal, and a patch of the size of the volume has
\* the one offset of all zeros; and in every case the count vol() checks the
\* cycle length against is the number of patches the patch stream produces
\* for that volume.
C23_GridCorrect ==
    call.pc = "grid done" =>
       LET V == call.vol_shape
           P == IF call.patch_size.none THEN V ELSE call.patch_size.shape
           S == call.patch_stride
           grid == call.grid
       IN  /\ (\A i \in 1..Len(V) : P[i] <= V[i]) =>
                 /\ Len(grid) = ProductOfCounts(V, P, S)
                 /\ \A k \in 1..Len(grid) :
                       /\ Len(grid[k]) = Len(V)
                       /\ \A i \in 1..Len(V) : 0 <= grid[k][i] /\ grid[k][i] <= V[i] - P[i]
                 /\ \A j, k \in 1..Len(grid) : j # k => grid[j] # grid[k]
                 /\ P = V => grid = << [i \in 1..Len(V) |-> 0] >>
           /\ call.nb_patches_per_vol = call.produced
           /\ call.produced = Len(grid)

\* A grid over two axes with a stride that does not divide the room left on
\* one of them.
C23_Witness ==
    /\ call.pc = "grid done" /\ ~call.patch_size.none
    /\ call.vol_shape = <<3, 3>> /\ call.patch_size.shape = <<1, 2>> /\ call.patch_stride = <<2, 2>>
    /\ call.grid = << <<0, 0>>, <<2, 0>> >>
    /\ call.nb_patches_per_vol = 2 /\ call.produced = 2

\* C24: the loader returns a volume for each of the extensions '.npz', '.npy',
\* '.nii', '.nii.gz' and '.mgz', and raises the unsupported-format error for
\* every other extension.
C24_LoaderExtensions ==
    call.pc = "load done" =>
       IF call.ext \in {".npz", ".npy", ".nii", ".nii.gz", ".mgz"}
       THEN call.result.raised = "none" /\ call.result.vol_data # "unbound"
       ELSE call.result.raised = "ValueError: Unexpected extension"

\* ------------------------------------------------------ the whole model
Init ==
    \/ InitPatch \/ InitVol \/ InitPrior \/ InitSeg \/ InitRelabel
    \/ InitExt \/ InitImg \/ InitList \/ InitHelpers \/ InitMaxPatch
    \/ InitSlices

Next ==
    \/ NextPatch \/ NextVol \/ NextPrior \/ NextSeg \/ NextRelabel
    \/ NextExt \/ NextImg \/ NextList \/ NextHelpers \/ NextMaxPatch
    \/ NextSlices

Spec == Init /\ [][Next]_vars

====
